---- MODULE Spec2Model ----
(***************************************************************************)
(* daily-reporter: the concurrency core of the Telegram client.            *)
(*                                                                         *)
(*   borrowonce.Storage   src/internal/util/borrowonce/storage.go          *)
(*   telegram.Client      src/unnamed/part_010                             *)
(*   update.Update        src/unnamed/part_017                             *)
(*                                                                         *)
(*   state.Handle         src/internal/clients/telegram/state/handler.go   *)
(*   slashcmd             src/internal/util/slashcmd/slashcmd.go           *)
(*   option.Option        src/internal/util/option/option.go               *)
(*                                                                         *)
(* Specifications:                                                         *)
(*   SpecStorage  the Storage used by free clients (Set / Borrow / Wait /  *)
(*                Return in any interleaving);                             *)
(*   Spec         the Client pipeline: Start, getUpdates, stateQueue,      *)
(*                processUpdates, Stop, fail;                              *)
(*   SpecLive     the pipeline with returning handlers, under fairness;    *)
(*   SpecCalls    the functions without shared state (the dispatcher, the  *)
(*                slash-command parser, the Option codec), called with     *)
(*                every argument of a bounded domain.                      *)
(*                                                                         *)
(*   SpecPanic    the pipeline with handlers that may panic;               *)
(*   SpecFetch    getUpdates with every kind of answer;                    *)
(*   SpecSend     the pipeline with transitions that carry actions;        *)
(*   SpecLock     the calls on a Storage as NewStorage returns it;         *)
(*   SpecBind     the pipeline with borrowState and borrowUserData call by *)
(*                call;                                                    *)
(*   SpecStall    the pipeline with a handler that never returns, under    *)
(*                fairness.                                                *)
(*                                                                         *)
(* Set, Borrow and Return are the critical sections the Storage runs under *)
(* storeMu; each is one atomic step here.  The lock itself, as NewStorage  *)
(* leaves it, is the subject of SpecLock (SetLocked, BorrowLocked,         *)
(* ReturnLocked).                                                          *)
(***************************************************************************)
EXTENDS Integers, Sequences, FiniteSets, TLC

(***************************************************************************)
(* Bounds of the model.                                                    *)
(***************************************************************************)
NClients   == 3     \* free clients of SpecStorage
MaxBorrows == 3     \* successful Borrow calls in one run of SpecStorage
MaxThreads == 2     \* Start(threads) is called with threads in 0..MaxThreads
MaxUpdates == 2     \* the server has updates with ids 1..MaxUpdates
MaxBatch   == 1     \* updates in one getUpdates response
FetchBatch == 2     \* updates in one getUpdates response, in SpecFetch
MaxLen     == 5     \* characters of a string given to Parse / splitArgs
MaxArgs    == 4     \* arguments of a Command given to NextAfter

Clients == 1..NClients
Keys    == {"k1", "k2"}
Values  == {"v0", "v1"}

(***************************************************************************)
(* borrowonce: borrowable[V], Future[V], Storage[K, V].                    *)
(* A Storage value here is [store, heap]: store is the Go map (a key the   *)
(* map lacks holds NoSlot), heap holds the Future objects the map's queues *)
(* and the callers point to; a *Future is its index in heap.               *)
(***************************************************************************)
ZeroValue == "zero"     \* *new(V)

NoSlot == [exists |-> FALSE, value |-> ZeroValue, borrowed |-> FALSE, queue |-> <<>>]

borrowableTaken(value) ==
    [exists |-> TRUE, value |-> value, borrowed |-> TRUE, queue |-> <<>>]

borrowable(value) ==
    [exists |-> TRUE, value |-> value, borrowed |-> FALSE, queue |-> <<>>]

\* the value of a *sync.Mutex field nothing was assigned to
NilMutex == "nil"

\* NewStorage: the map is made; storeMu is not in the composite literal.
NewStorage(K) == [storeMu |-> NilMutex, store |-> [k \in K |-> NoSlot], heap |-> <<>>]

\* &Future[V]{v: v}: an unlocked future that already carries v.
NewImmediateFuture(S, v) ==
    [future |-> Len(S.heap) + 1,
     S      |-> [S EXCEPT !.heap = Append(@, [locked |-> FALSE, v |-> v])]]

SetOverwrite(S, key, value) ==
    [panic |-> FALSE, S |-> [S EXCEPT !.store[key] = borrowable(value)]]

\* Storage.Set: panics on an existing key, else stores a fresh slot.
Set(S, key, value) ==
    IF S.store[key].exists
    THEN [panic |-> TRUE,  S |-> S]
    ELSE [panic |-> FALSE, S |-> [S EXCEPT !.store[key] = borrowable(value)]]

BorrowCreate(S, key) ==
    LET slot == S.store[key]
        f    == Len(S.heap) + 1
    IN  IF ~slot.exists
        THEN [found |-> FALSE, future |-> 0,
              S |-> [S EXCEPT !.store[key] = borrowable(ZeroValue)]]
        ELSE IF Len(slot.queue) = 0 /\ ~slot.borrowed
        THEN [found |-> TRUE, future |-> f,
              S |-> [S EXCEPT !.store[key].borrowed = TRUE,
                              !.heap = Append(@, [locked |-> FALSE, v |-> slot.value])]]
        ELSE [found |-> TRUE, future |-> f,
              S |-> [S EXCEPT !.heap = Append(@, [locked |-> TRUE, v |-> ZeroValue]),
                              !.store[key].queue = Append(@, f)]]

BorrowNoMark(S, key) ==
    LET slot == S.store[key]
        f    == Len(S.heap) + 1
    IN  IF ~slot.exists
        THEN [found |-> FALSE, future |-> 0, S |-> S]
        ELSE IF Len(slot.queue) = 0 /\ ~slot.borrowed
        THEN [found |-> TRUE, future |-> f,
              S |-> [S EXCEPT !.heap = Append(@, [locked |-> FALSE, v |-> slot.value])]]
        ELSE [found |-> TRUE, future |-> f,
              S |-> [S EXCEPT !.heap = Append(@, [locked |-> TRUE, v |-> ZeroValue]),
                              !.store[key].queue = Append(@, f)]]

\* Storage.Borrow: (nil, false) on an unknown key; a resolved future when the
\* slot is free and nobody queues; else a locked future at the queue's tail.
Borrow(S, key) ==
    LET slot == S.store[key]
        f    == Len(S.heap) + 1
    IN  IF ~slot.exists
        THEN [found |-> FALSE, future |-> 0, S |-> S]
        ELSE IF Len(slot.queue) = 0 /\ ~slot.borrowed
        THEN [found |-> TRUE, future |-> f,
              S |-> [S EXCEPT !.store[key].borrowed = TRUE,
                              !.heap = Append(@, [locked |-> FALSE, v |-> slot.value])]]
        ELSE [found |-> TRUE, future |-> f,
              S |-> [S EXCEPT !.heap = Append(@, [locked |-> TRUE, v |-> ZeroValue]),
                              !.store[key].queue = Append(@, f)]]

ReturnLast(S, key, value) ==
    LET slot == S.store[key]
        n    == Len(slot.queue)
    IN  IF ~slot.exists
        THEN [panic |-> TRUE, S |-> S]
        ELSE IF n = 0
        THEN [panic |-> FALSE,
              S |-> [S EXCEPT !.store[key].value = value,
                              !.store[key].borrowed = FALSE]]
        ELSE [panic |-> FALSE,
              S |-> [S EXCEPT !.store[key].value = value,
                              !.heap[slot.queue[n]] = [locked |-> FALSE, v |-> value],
                              !.store[key].queue = SubSeq(slot.queue, 1, n - 1)]]

ReturnStale(S, key, value) ==
    LET slot == S.store[key]
    IN  IF ~slot.exists
        THEN [panic |-> TRUE, S |-> S]
        ELSE IF Len(slot.queue) = 0
        THEN [panic |-> FALSE,
              S |-> [S EXCEPT !.store[key].borrowed = FALSE]]
        ELSE [panic |-> FALSE,
              S |-> [S EXCEPT !.heap[Head(slot.queue)] = [locked |-> FALSE, v |-> value],
                              !.store[key].queue = Tail(slot.queue)]]

ReturnBroadcast(S, key, value) ==
    LET slot == S.store[key]
    IN  IF ~slot.exists
        THEN [panic |-> TRUE, S |-> S]
        ELSE IF Len(slot.queue) = 0
        THEN [panic |-> FALSE,
              S |-> [S EXCEPT !.store[key].value = value,
                              !.store[key].borrowed = FALSE,
                              !.heap = [f \in DOMAIN S.heap |->
                                           [locked |-> S.heap[f].locked, v |-> value]]]]
        ELSE [panic |-> FALSE,
              S |-> [S EXCEPT !.store[key].value = value,
                              !.heap = [f \in DOMAIN S.heap |->
                                           [locked |-> S.heap[f].locked /\ f # Head(slot.queue),
                                            v      |-> value]],
                              !.store[key].queue = Tail(slot.queue)]]

ReturnWakeAll(S, key, value) ==
    LET slot == S.store[key]
    IN  IF ~slot.exists
        THEN [panic |-> TRUE, S |-> S]
        ELSE IF Len(slot.queue) = 0
        THEN [panic |-> FALSE,
              S |-> [S EXCEPT !.store[key].value = value,
                              !.store[key].borrowed = FALSE,
                              !.heap = [f \in DOMAIN S.heap |->
                                           IF S.heap[f].locked
                                           THEN [locked |-> FALSE, v |-> value]
                                           ELSE S.heap[f]]]]
        ELSE [panic |-> FALSE,
              S |-> [S EXCEPT !.store[key].value = value,
                              !.heap[Head(slot.queue)] = [locked |-> FALSE, v |-> value],
                              !.store[key].queue = Tail(slot.queue)]]

ReturnUnmark(S, key, value) ==
    LET slot == S.store[key]
    IN  IF ~slot.exists
        THEN [panic |-> TRUE, S |-> S]
        ELSE IF Len(slot.queue) = 0
        THEN [panic |-> FALSE,
              S |-> [S EXCEPT !.store[key].value = value,
                              !.store[key].borrowed = FALSE]]
        ELSE [panic |-> FALSE,
              S |-> [S EXCEPT !.store[key].value = value,
                              !.store[key].borrowed = FALSE,
                              !.heap[Head(slot.queue)] = [locked |-> FALSE, v |-> value],
                              !.store[key].queue = Tail(slot.queue)]]

ReturnNoHandOver(S, key, value) ==
    LET slot == S.store[key]
    IN  IF ~slot.exists
        THEN [panic |-> TRUE, S |-> S]
        ELSE [panic |-> FALSE, S |-> [S EXCEPT !.store[key].value = value]]

\* Storage.Return: panics on an unknown key; stores value; hands it to the
\* head of the queue and unlocks it, or marks the slot free.
Return(S, key, value) ==
    LET slot == S.store[key]
    IN  IF ~slot.exists
        THEN [panic |-> TRUE, S |-> S]
        ELSE IF Len(slot.queue) = 0
        THEN [panic |-> FALSE,
              S |-> [S EXCEPT !.store[key].value = value,
                              !.store[key].borrowed = FALSE]]
        ELSE [panic |-> FALSE,
              S |-> [S EXCEPT !.store[key].value = value,
                              !.heap[Head(slot.queue)] = [locked |-> FALSE, v |-> value],
                              !.store[key].queue = Tail(slot.queue)]]

\* Future.Wait: vMu.Lock() succeeds once the future is unlocked; returns v.
WaitReady(S, f) == ~S.heap[f].locked
Wait(S, f)      == S.heap[f].v


(***************************************************************************)
(* The state: of SpecStorage (the Storage and its clients), then of Spec   *)
(* (the Client and its tasks).                                             *)
(***************************************************************************)
VARIABLES
    stg,          \* the Storage
    cpc,          \* client -> "idle" | "waiting" (has a future) | "holding" (Wait returned)
    ckey,         \* client -> key of its future
    cfut,         \* client -> its future
    borrowOrder,  \* history: key -> futures of the key, in Borrow call order
    returned,     \* history: futures whose holder has called Return
    lastGiven,    \* history: key -> value of the latest Set / Return call on the key
    seen,         \* history: future -> lastGiven of its key when the future was resolved
    got,          \* history: future -> value its Wait returned
    lastCall      \* history: the latest call on the Storage and how it ended

svars == <<stg, cpc, ckey, cfut, borrowOrder, returned, lastGiven, seen, got, lastCall>>

Workers == 1..MaxThreads

\* Tasks: the workers 1..MaxThreads, then getUpdates and stateQueue.
Fetcher == MaxThreads + 1
Binder  == MaxThreads + 2
Tasks   == Workers \cup {Fetcher, Binder}

VARIABLES
    mainpc,       \* the owner: "init" | "running" | "stopping" | "stopped"
    nthreads,     \* the threads argument of Start
    getMe,        \* history: "unknown" | "ok" | "failed": how the GetMe call of Start ended
    ctxDone,      \* the context of Start has been cancelled
    wg,           \* c.wg: the WaitGroup counter
    errCh,        \* the channel Start returned (capacity 1)
    errLog,       \* history: every error written to errCh, in order
    updateCh, updateClosed,
    stateCh, stateClosed,
    pc,           \* task -> where it is: "none" (not spawned), "spawned", ..., "exited"
    terr,         \* task -> the error it hands to fail
    failures, offset, batch,        \* getUpdates
    bjob,                           \* stateQueue: the job it is about to send
    wjob, wstate, wdata, wtrans, wact,    \* processUpdates, per worker
    conv,         \* c.conversationStateStore
    usr,          \* c.userSharedDataStore
    hist          \* history: per job, in stateQueue order: what its handler saw and returned

lifevars == <<mainpc, nthreads, getMe, ctxDone, wg, errCh, errLog>>
chanvars == <<updateCh, updateClosed, stateCh, stateClosed>>
taskvars == <<pc, terr>>
fvars    == <<failures, offset, batch>>
wvars    == <<wjob, wstate, wdata, wtrans, wact>>
stvars   == <<conv, usr>>
pvars    == <<lifevars, chanvars, taskvars, fvars, bjob, wvars, stvars, hist>>

VARIABLES
    fin,          \* the latest call of a function and its arguments
    fout,         \* what that call returned
    sent,         \* history: the ids getUpdates has sent on updateCh, in order
    outbox        \* history: the actions the workers have passed to the requester

cvars    == <<fin, fout>>
uvars    == <<cvars, sent, outbox>>
vars     == <<svars, pvars, uvars>>

(***************************************************************************)
(* SpecStorage: one Storage[K, V] and NClients free clients.  A client     *)
(* calls Set or Borrow; with a future it calls Wait and, once Wait has     *)
(* returned, Return with any value (storage_test.go uses the Storage this  *)
(* way).  The history variables record what the calls did; the Storage     *)
(* operators never read them.                                              *)
(***************************************************************************)
Unset == "unset"

\* Futures an operation resolved: locked (or not yet allocated) before, unlocked after.
Resolved(S, T) ==
    {f \in 1..Len(T.heap) :
        /\ ~T.heap[f].locked
        /\ (f > Len(S.heap) \/ S.heap[f].locked)}

\* store.Set(key, value); a panic leaves the Storage as it was.
ClientSet(c, k, v) ==
    LET r == Set(stg, k, v) IN
    /\ cpc[c] = "idle"
    /\ stg' = r.S
    /\ lastGiven' = IF r.panic THEN lastGiven ELSE [lastGiven EXCEPT ![k] = v]
    /\ lastCall' = IF r.panic THEN "SetPanic" ELSE "Set"
    /\ UNCHANGED <<cpc, ckey, cfut, borrowOrder, returned, seen, got>>
    /\ UNCHANGED <<pvars, uvars>>

\* future, found := store.Borrow(key)
ClientBorrow(c, k) ==
    LET r == Borrow(stg, k) IN
    /\ cpc[c] = "idle"
    /\ Len(stg.heap) < MaxBorrows
    /\ stg' = r.S
    /\ IF r.found
       THEN /\ cpc' = [cpc EXCEPT ![c] = "waiting"]
            /\ ckey' = [ckey EXCEPT ![c] = k]
            /\ cfut' = [cfut EXCEPT ![c] = r.future]
            /\ borrowOrder' = [borrowOrder EXCEPT ![k] = Append(@, r.future)]
            /\ seen' = Append(seen, IF r.future \in Resolved(stg, r.S)
                                    THEN lastGiven[k] ELSE Unset)
            /\ got' = Append(got, Unset)
       ELSE UNCHANGED <<cpc, ckey, cfut, borrowOrder, seen, got>>
    /\ lastCall' = IF r.found THEN "Borrow" ELSE "BorrowMiss"
    /\ UNCHANGED <<returned, lastGiven>>
    /\ UNCHANGED <<pvars, uvars>>

\* future.Wait() returns
ClientWait(c) ==
    /\ cpc[c] = "waiting"
    /\ WaitReady(stg, cfut[c])
    /\ cpc' = [cpc EXCEPT ![c] = "holding"]
    /\ got' = [got EXCEPT ![cfut[c]] = Wait(stg, cfut[c])]
    /\ lastCall' = "Wait"
    /\ UNCHANGED <<stg, ckey, cfut, borrowOrder, returned, lastGiven, seen>>
    /\ UNCHANGED <<pvars, uvars>>

\* store.Return(key, value) by the holder
ClientReturn(c, v) ==
    LET r == Return(stg, ckey[c], v) IN
    /\ cpc[c] = "holding"
    /\ stg' = r.S
    /\ cpc' = [cpc EXCEPT ![c] = "idle"]
    /\ returned' = returned \cup {cfut[c]}
    /\ lastGiven' = [lastGiven EXCEPT ![ckey[c]] = v]
    /\ seen' = [f \in 1..Len(seen) |->
                   IF f \in Resolved(stg, r.S) THEN v ELSE seen[f]]
    /\ lastCall' = IF r.panic THEN "ReturnPanic" ELSE "Return"
    /\ UNCHANGED <<ckey, cfut, borrowOrder, got>>
    /\ UNCHANGED <<pvars, uvars>>

\* store.Return(key, value) on a key nobody has Set: the call panics.
ClientReturnUnknown(c, k, v) ==
    LET r == Return(stg, k, v) IN
    /\ cpc[c] = "idle"
    /\ ~stg.store[k].exists
    /\ stg' = r.S
    /\ lastCall' = IF r.panic THEN "ReturnPanic" ELSE "Return"
    /\ UNCHANGED <<cpc, ckey, cfut, borrowOrder, returned, lastGiven, seen, got>>
    /\ UNCHANGED <<pvars, uvars>>

\* borrowonce.NewImmediateFuture(v).Wait(): a future outside every queue.
ClientImmediate(c, v) ==
    LET r == NewImmediateFuture(stg, v) IN
    /\ cpc[c] = "idle"
    /\ Len(stg.heap) < MaxBorrows
    /\ stg' = r.S
    /\ WaitReady(r.S, r.future)
    /\ seen' = Append(seen, v)
    /\ got' = Append(got, Wait(r.S, r.future))
    /\ lastCall' = "Immediate"
    /\ UNCHANGED <<cpc, ckey, cfut, borrowOrder, returned, lastGiven>>
    /\ UNCHANGED <<pvars, uvars>>


StorageNext ==
    \/ \E c \in Clients, k \in Keys, v \in Values : ClientSet(c, k, v)
    \/ \E c \in Clients, k \in Keys : ClientBorrow(c, k)
    \/ \E c \in Clients : ClientWait(c)
    \/ \E c \in Clients, v \in Values : ClientReturn(c, v)
    \/ \E c \in Clients, k \in Keys, v \in Values : ClientReturnUnknown(c, k, v)
    \/ \E c \in Clients, v \in Values : ClientImmediate(c, v)



(***************************************************************************)
(* Claims about the Storage (SpecStorage).                                 *)
(***************************************************************************)
Holders(k) == {c \in Clients : cpc[c] = "holding" /\ ckey[c] = k}

FuturesOf(k) == {borrowOrder[k][i] : i \in 1..Len(borrowOrder[k])}

\* operation T of the Storage S has left the slot of k and its futures alone
Untouched(S, T, k) ==
    /\ T.store[k] = S.store[k]
    /\ \A f \in FuturesOf(k) : T.heap[f] = S.heap[f]

Owners(k) ==
    {c \in Clients : /\ cpc[c] \in {"waiting", "holding"} /\ ckey[c] = k
                     /\ WaitReady(stg, cfut[c])}

None    == [some |-> FALSE]
Some(x) == [some |-> TRUE, v |-> x]

ChatIDs == {100, 200}
UserIDs == {7, 8}

\* The update shapes the server sends: a message with a sender, a message
\* without one (a channel post), a callback query with its message.
MessageFrom(chat, from) ==
    [Message       |-> Some([Chat |-> chat, From |-> Some(from)]),
     CallbackQuery |-> None]
ChannelPost(chat) ==
    [Message       |-> Some([Chat |-> chat, From |-> None]),
     CallbackQuery |-> None]
CallbackOn(chat, from) ==
    [Message       |-> None,
     CallbackQuery |-> Some([From |-> from, Message |-> Some([Chat |-> chat, From |-> None])])]

Shapes ==
    {MessageFrom(100, 7), MessageFrom(200, 7), ChannelPost(100), CallbackOn(100, 7)}

\* fmt.Sprintf("%d:%d", chat, user): the pair, as the format is injective on pairs.
StateKeys == ChatIDs \X UserIDs

StateID(u) ==
    IF u.Message.some /\ u.Message.v.From.some
    THEN [ok |-> TRUE, id |-> <<u.Message.v.Chat, u.Message.v.From.v>>]
    ELSE IF u.CallbackQuery.some /\ u.CallbackQuery.v.Message.some
    THEN [ok |-> TRUE,
          id |-> <<u.CallbackQuery.v.Message.v.Chat, u.CallbackQuery.v.From>>]
    ELSE [ok |-> FALSE, id |-> <<0, 0>>]

UserID(u) ==
    IF u.Message.some /\ u.Message.v.From.some
    THEN [ok |-> TRUE, id |-> u.Message.v.From.v]
    ELSE [ok |-> FALSE, id |-> 0]

(***************************************************************************)
(* telegram.Client (src/unnamed/part_010).                                 *)
(***************************************************************************)
getUpdatesRetries == 10
updateChCap       == 1

RootState      == "Root"
States         == {"Root", "AddApiKey"}
NoAPIKey       == "none"
UserSharedData == {"none", "key"}

NoJob   == [idx |-> 0]
NoError == "none"

\* the state after construction, of everything but the call record
InitState ==
    /\ stg = NewStorage(Keys)
    /\ cpc = [c \in Clients |-> "idle"]
    /\ ckey = [c \in Clients |-> "k1"]
    /\ cfut = [c \in Clients |-> 0]
    /\ borrowOrder = [k \in Keys |-> <<>>]
    /\ returned = {}
    /\ lastGiven = [k \in Keys |-> Unset]
    /\ seen = <<>>
    /\ got = <<>>
    /\ lastCall = "none"
    /\ mainpc = "init"
    /\ nthreads = 0
    /\ getMe = "unknown"
    /\ ctxDone = FALSE
    /\ wg = 0
    /\ errCh = <<>>
    /\ errLog = <<>>
    /\ updateCh = <<>> /\ updateClosed = FALSE
    /\ stateCh = <<>> /\ stateClosed = FALSE
    /\ pc = [t \in Tasks |-> "none"]
    /\ terr = [t \in Tasks |-> NoError]
    /\ failures = 0 /\ offset = 0 /\ batch = <<>>
    /\ bjob = NoJob
    /\ wjob = [w \in Workers |-> NoJob]
    /\ wstate = [w \in Workers |-> ZeroValue]
    /\ wdata = [w \in Workers |-> ZeroValue]
    /\ wtrans = [w \in Workers |-> None]
    /\ wact = [w \in Workers |-> 0]
    /\ conv = NewStorage(StateKeys)
    /\ usr = NewStorage(UserIDs)
    /\ hist = <<>>
    /\ fout = [fn |-> "none"]
    /\ sent = <<>>
    /\ outbox = <<>>

Init == InitState /\ fin = [fn |-> "none"]

(***************************************************************************)
(* Lifecycle: Start, Stop, fail.                                           *)
(***************************************************************************)
StartUnguarded(threads, getMeOk) ==
    /\ mainpc = "init"
    /\ mainpc' = "running"
    /\ nthreads' = threads
    /\ getMe' = IF threads = 0 THEN "unknown" ELSE IF getMeOk THEN "ok" ELSE "failed"
    /\ pc' = [t \in Tasks |->
                IF t \in {Fetcher, Binder} \/ t <= threads THEN "spawned" ELSE "none"]
    /\ UNCHANGED <<ctxDone, wg, errCh, errLog, terr>>
    /\ UNCHANGED <<chanvars, fvars, bjob, wvars, stvars, hist>>
    /\ UNCHANGED <<svars, uvars>>

\* Client.Start.  threads = 0 or a failed GetMe: fail(err) runs inside Start
\* (Stop: cancel, wg.Wait on a zero counter; then errCh <- err on the empty
\* buffer) and nothing is spawned.  Else the stores and channels are made and
\* getUpdates, stateQueue and `threads` processUpdates goroutines are spawned.
Start(threads, getMeOk) ==
    /\ mainpc = "init"
    /\ mainpc' = "running"
    /\ nthreads' = threads
    /\ getMe' = IF threads = 0 THEN "unknown" ELSE IF getMeOk THEN "ok" ELSE "failed"
    /\ IF threads = 0 \/ ~getMeOk
       THEN LET err == IF threads = 0 THEN "ZeroThreadsError" ELSE "GetMeError" IN
            /\ ctxDone' = TRUE
            /\ errCh' = Append(errCh, err)
            /\ errLog' = Append(errLog, err)
            /\ UNCHANGED pc
       ELSE /\ pc' = [t \in Tasks |->
                        IF t \in {Fetcher, Binder} \/ t <= threads
                        THEN "spawned" ELSE "none"]
            /\ UNCHANGED <<ctxDone, errCh, errLog>>
    /\ UNCHANGED <<wg, terr>>
    /\ UNCHANGED <<chanvars, fvars, bjob, wvars, stvars, hist>>
    /\ UNCHANGED <<svars, uvars>>

\* Client.Stop, first half: c.stopProcessing()
StopCancel ==
    /\ mainpc = "running"
    /\ mainpc' = "stopping"
    /\ ctxDone' = TRUE
    /\ UNCHANGED <<nthreads, getMe, wg, errCh, errLog>>
    /\ UNCHANGED <<chanvars, taskvars, fvars, bjob, wvars, stvars, hist>>
    /\ UNCHANGED <<svars, uvars>>

\* Client.Stop, second half: c.wg.Wait() returns on a zero counter.
StopWait ==
    /\ mainpc = "stopping"
    /\ wg = 0
    /\ mainpc' = "stopped"
    /\ UNCHANGED <<nthreads, getMe, ctxDone, wg, errCh, errLog>>
    /\ UNCHANGED <<chanvars, taskvars, fvars, bjob, wvars, stvars, hist>>
    /\ UNCHANGED <<svars, uvars>>

\* The owner receives from the channel Start returned (cmd/main.go).
ReceiveError ==
    /\ mainpc # "init"
    /\ errCh # <<>>
    /\ errCh' = Tail(errCh)
    /\ UNCHANGED <<mainpc, nthreads, getMe, ctxDone, wg, errLog>>
    /\ UNCHANGED <<chanvars, taskvars, fvars, bjob, wvars, stvars, hist>>
    /\ UNCHANGED <<svars, uvars>>

\* Every task begins with c.wg.Add(1), inside its goroutine.
FirstPC(t) == IF t = Fetcher THEN "loop" ELSE "recv"

TaskStart(t) ==
    /\ pc[t] = "spawned"
    /\ wg' = wg + 1
    /\ pc' = [pc EXCEPT ![t] = FirstPC(t)]
    /\ UNCHANGED <<mainpc, nthreads, getMe, ctxDone, errCh, errLog, terr>>
    /\ UNCHANGED <<chanvars, fvars, bjob, wvars, stvars, hist>>
    /\ UNCHANGED <<svars, uvars>>

\* Client.fail in a task, after c.stopProcessing(): c.wg.Wait() returns.
FailWait(t) ==
    /\ pc[t] = "failWait"
    /\ wg = 0
    /\ pc' = [pc EXCEPT ![t] = "failSend"]
    /\ UNCHANGED <<lifevars, terr>>
    /\ UNCHANGED <<chanvars, fvars, bjob, wvars, stvars, hist>>
    /\ UNCHANGED <<svars, uvars>>

\* Client.fail: c.errCh <- err; blocks while the buffer is full.
FailSend(t) ==
    /\ pc[t] = "failSend"
    /\ Len(errCh) < 1
    /\ errCh' = Append(errCh, terr[t])
    /\ errLog' = Append(errLog, terr[t])
    /\ pc' = [pc EXCEPT ![t] = "exited"]
    /\ UNCHANGED <<mainpc, nthreads, getMe, ctxDone, wg, terr>>
    /\ UNCHANGED <<chanvars, fvars, bjob, wvars, stvars, hist>>
    /\ UNCHANGED <<svars, uvars>>

(***************************************************************************)
(* getUpdates: the long-poll fetcher.                                      *)
(***************************************************************************)
\* What the server may answer to a request with this offset: a batch of at
\* most MaxBatch updates with distinct ids >= offset, in any order, ...
ServerUpdates(off) ==
    {[ID |-> i, Message |-> sh.Message, CallbackQuery |-> sh.CallbackQuery] :
        i \in {i \in 1..MaxUpdates : i >= off}, sh \in Shapes}

RECURSIVE Batches(_, _)
Batches(off, n) ==
    IF n = 0
    THEN {<<>>}
    ELSE LET shorter == Batches(off, n - 1) IN
         shorter \cup
         {Append(b, u) : <<b, u>> \in
             {<<b, u>> \in shorter \X ServerUpdates(off) :
                 /\ Len(b) = n - 1
                 /\ \A k \in 1..Len(b) : b[k].ID # u.ID}}

\* ... or an error.  apiErr is the zero APIError for a transport or parse error.
APIErrors == [unauthorized : BOOLEAN, retryAfter : BOOLEAN, migrate : BOOLEAN]

Responses(off) ==
    {[ok |-> TRUE, updates |-> b] : b \in Batches(off, MaxBatch)}
    \cup {[ok |-> FALSE, apiErr |-> e] : e \in APIErrors}

\* The answers that leave the failure counter alone: a batch, or an error
\* with unauthorized, retry_after or migrate_to_chat_id set.
UncountedResponses(off) ==
    {r \in Responses(off) :
        r.ok \/ r.apiErr.unauthorized \/ r.apiErr.retryAfter \/ r.apiErr.migrate}

\* the panic at the end of getUpdates, as fail reports it
TooManyErrors == "panic in getUpdates: too many errors"

\* shutdown() of getUpdates, then c.fail(err) up to c.stopProcessing().
FetcherFail(err) ==
    /\ updateClosed' = TRUE
    /\ wg' = wg - 1
    /\ ctxDone' = TRUE
    /\ pc' = [pc EXCEPT ![Fetcher] = "failWait"]
    /\ terr' = [terr EXCEPT ![Fetcher] = err]
    /\ UNCHANGED <<mainpc, nthreads, getMe, errCh, errLog>>
    /\ UNCHANGED <<updateCh, stateCh, stateClosed>>
    /\ UNCHANGED <<fvars, bjob, wvars, stvars, hist>>

\* for failures < getUpdatesRetries { select { case <-ctx.Done(): shutdown(); return
FetcherCancelled ==
    /\ pc[Fetcher] = "loop"
    /\ failures < getUpdatesRetries
    /\ ctxDone
    /\ updateClosed' = TRUE
    /\ wg' = wg - 1
    /\ pc' = [pc EXCEPT ![Fetcher] = "exited"]
    /\ UNCHANGED <<mainpc, nthreads, getMe, ctxDone, errCh, errLog, terr>>
    /\ UNCHANGED <<updateCh, stateCh, stateClosed>>
    /\ UNCHANGED <<fvars, bjob, wvars, stvars, hist>>
    /\ UNCHANGED <<svars, uvars>>

\* default: updates, err := getUpdates.Request(ctx, c.requester), and what
\* the loop does with the answer up to the first send on updateCh.
FetcherRequest(resp) ==
    /\ pc[Fetcher] = "loop"
    /\ failures < getUpdatesRetries
    /\ ~ctxDone
    /\ IF ~resp.ok
       THEN IF resp.apiErr.unauthorized
            THEN FetcherFail("bad credentials")
            ELSE IF resp.apiErr.retryAfter
            THEN UNCHANGED pvars                    \* time.Sleep; continue
            ELSE IF resp.apiErr.migrate
            THEN FetcherFail("panic in getUpdates")   \* panic, recovered
            ELSE /\ failures' = failures + 1
                 /\ UNCHANGED <<offset, batch>>
                 /\ UNCHANGED <<lifevars, chanvars, taskvars, bjob, wvars, stvars, hist>>
       ELSE /\ failures' = 0
            /\ batch' = resp.updates
            /\ pc' = [pc EXCEPT ![Fetcher] = IF resp.updates = <<>> THEN "loop" ELSE "send"]
            /\ UNCHANGED <<offset, terr>>
            /\ UNCHANGED <<lifevars, chanvars, bjob, wvars, stvars, hist>>
    /\ UNCHANGED <<svars, uvars>>

\* if getUpdates.Offset <= upd.ID { getUpdates.Offset = upd.ID + 1 }
NextOffsetLast(off, id) == id + 1

NextOffset(off, id) == IF off <= id THEN id + 1 ELSE off

\* updateCh <- updates[i]; then the offset moves past upd.ID.
FetcherSend ==
    /\ pc[Fetcher] = "send"
    /\ Len(updateCh) < updateChCap
    /\ updateCh' = Append(updateCh, Head(batch))
    /\ offset' = NextOffset(offset, Head(batch).ID)
    /\ batch' = Tail(batch)
    /\ pc' = [pc EXCEPT ![Fetcher] = IF Tail(batch) = <<>> THEN "loop" ELSE "send"]
    /\ UNCHANGED <<lifevars, terr, failures>>
    /\ sent' = Append(sent, Head(batch).ID)
    /\ UNCHANGED <<updateClosed, stateCh, stateClosed>>
    /\ UNCHANGED <<bjob, wvars, stvars, hist>>
    /\ UNCHANGED <<svars, cvars, outbox>>

\* The loop ends with failures = getUpdatesRetries: panic("bot encountered too
\* many errors"), recovered by the deferred function: shutdown(), c.fail.
FetcherTooManyErrors ==
    /\ pc[Fetcher] = "loop"
    /\ failures >= getUpdatesRetries
    /\ FetcherFail(TooManyErrors)
    /\ UNCHANGED <<svars, uvars>>

(***************************************************************************)
(* stateQueue: pairs each update with the futures of its state and of its  *)
(* sender's shared data.                                                   *)
(***************************************************************************)
borrowStateImmediate(S, handle) ==
    LET r == NewImmediateFuture(S, RootState)
    IN  [panic |-> FALSE, future |-> r.future, S |-> r.S]

\* Client.borrowState: Borrow; on a miss Set the Root state and Borrow again.
borrowState(S, handle) ==
    LET first == Borrow(S, handle) IN
    IF first.found
    THEN [panic |-> FALSE, future |-> first.future, S |-> first.S]
    ELSE LET set == Set(S, handle, RootState) IN
         IF set.panic
         THEN [panic |-> TRUE, future |-> 0, S |-> S]
         ELSE LET second == Borrow(set.S, handle) IN
              IF second.found
              THEN [panic |-> FALSE, future |-> second.future, S |-> second.S]
              ELSE [panic |-> TRUE, future |-> 0, S |-> set.S]

borrowUserDataImmediate(S, handle) ==
    LET r == NewImmediateFuture(S, NoAPIKey)
    IN  [panic |-> FALSE, future |-> r.future, S |-> r.S]

\* Client.borrowUserData: the same for UserSharedData{GithubAPIKey: None}.
borrowUserData(S, handle) ==
    LET first == Borrow(S, handle) IN
    IF first.found
    THEN [panic |-> FALSE, future |-> first.future, S |-> first.S]
    ELSE LET set == Set(S, handle, NoAPIKey) IN
         IF set.panic
         THEN [panic |-> TRUE, future |-> 0, S |-> S]
         ELSE LET second == Borrow(set.S, handle) IN
              IF second.found
              THEN [panic |-> FALSE, future |-> second.future, S |-> second.S]
              ELSE [panic |-> TRUE, future |-> 0, S |-> set.S]

\* The futures of one update: an immediate future unless the update has the key.
BindState(upd) ==
    IF StateID(upd).ok
    THEN borrowState(conv, StateID(upd).id)
    ELSE LET r == NewImmediateFuture(conv, RootState)
         IN  [panic |-> FALSE, future |-> r.future, S |-> r.S]

BindUserData(upd) ==
    IF UserID(upd).ok
    THEN borrowUserData(usr, UserID(upd).id)
    ELSE LET r == NewImmediateFuture(usr, NoAPIKey)
         IN  [panic |-> FALSE, future |-> r.future, S |-> r.S]

\* for upd := range updateCh { ...: one update is received and bound.  A panic
\* is recovered: shutdown() (wg.Done, close(stateCh)), then c.fail.
BinderBind ==
    /\ pc[Binder] = "recv"
    /\ updateCh # <<>>
    /\ LET upd == Head(updateCh)
           sf  == BindState(upd)
           uf  == BindUserData(upd)
       IN  /\ updateCh' = Tail(updateCh)
           /\ conv' = sf.S
           /\ IF sf.panic
              THEN /\ wg' = wg - 1
                   /\ stateClosed' = TRUE
                   /\ ctxDone' = TRUE
                   /\ pc' = [pc EXCEPT ![Binder] = "failWait"]
                   /\ terr' = [terr EXCEPT ![Binder] = "panic in stateQueue"]
                   /\ UNCHANGED <<usr, bjob, hist>>
              ELSE IF uf.panic
              THEN /\ wg' = wg - 1
                   /\ stateClosed' = TRUE
                   /\ ctxDone' = TRUE
                   /\ pc' = [pc EXCEPT ![Binder] = "failWait"]
                   /\ terr' = [terr EXCEPT ![Binder] = "panic in stateQueue"]
                   /\ usr' = uf.S
                   /\ UNCHANGED <<bjob, hist>>
              ELSE /\ usr' = uf.S
                   /\ bjob' = [idx |-> Len(hist) + 1, update |-> upd,
                               state |-> sf.future, userData |-> uf.future]
                   /\ hist' = Append(hist, [update |-> upd, status |-> "queued",
                                            from |-> ZeroValue, next |-> ZeroValue,
                                            data |-> ZeroValue, nextData |-> ZeroValue,
                                            actions |-> <<>>, returns |-> {}])
                   /\ pc' = [pc EXCEPT ![Binder] = "put"]
                   /\ UNCHANGED <<wg, stateClosed, ctxDone, terr>>
    /\ UNCHANGED <<mainpc, nthreads, getMe, errCh, errLog>>
    /\ UNCHANGED <<updateClosed, stateCh, fvars, wvars>>
    /\ UNCHANGED <<svars, uvars>>

\* stateCh <- updateWithState{...}; the channel holds `threads` jobs.
BinderPut ==
    /\ pc[Binder] = "put"
    /\ Len(stateCh) < nthreads
    /\ stateCh' = Append(stateCh, bjob)
    /\ bjob' = NoJob
    /\ pc' = [pc EXCEPT ![Binder] = "recv"]
    /\ UNCHANGED <<lifevars, terr>>
    /\ UNCHANGED <<updateCh, updateClosed, stateClosed>>
    /\ UNCHANGED <<fvars, wvars, stvars, hist>>
    /\ UNCHANGED <<svars, uvars>>

BinderDoneEarly ==
    /\ pc[Binder] = "recv"
    /\ updateClosed
    /\ wg' = wg - 1
    /\ pc' = [pc EXCEPT ![Binder] = "closing"]
    /\ UNCHANGED <<mainpc, nthreads, getMe, ctxDone, errCh, errLog, terr>>
    /\ UNCHANGED <<chanvars, fvars, bjob, wvars, stvars, hist>>
    /\ UNCHANGED <<svars, uvars>>

\* updateCh is closed and drained: shutdown() begins with c.wg.Done() ...
BinderDone ==
    /\ pc[Binder] = "recv"
    /\ updateCh = <<>>
    /\ updateClosed
    /\ wg' = wg - 1
    /\ pc' = [pc EXCEPT ![Binder] = "closing"]
    /\ UNCHANGED <<mainpc, nthreads, getMe, ctxDone, errCh, errLog, terr>>
    /\ UNCHANGED <<chanvars, fvars, bjob, wvars, stvars, hist>>
    /\ UNCHANGED <<svars, uvars>>

\* ... and ends with close(stateCh).
BinderClose ==
    /\ pc[Binder] = "closing"
    /\ stateClosed' = TRUE
    /\ pc' = [pc EXCEPT ![Binder] = "exited"]
    /\ UNCHANGED <<lifevars, terr>>
    /\ UNCHANGED <<updateCh, updateClosed, stateCh>>
    /\ UNCHANGED <<fvars, bjob, wvars, stvars, hist>>
    /\ UNCHANGED <<svars, uvars>>

(***************************************************************************)
(* processUpdates: one worker.                                             *)
(***************************************************************************)
\* the actions a transition may carry, by the endpoint they are sent to
BotActions == {"sendMessage", "answerCallbackQuery"}

\* What a handler may return: any next state and user data; or it panics.
\* The transitions of the pipeline specifications carry no action; those of
\* SpecSend do.
Transitions == [NewState : States, UserData : UserSharedData, Actions : {<<>>}]
Outcomes    == {Some(t) : t \in Transitions} \cup {None}

\* shutdown() of processUpdates (wg.Done), then c.fail up to c.stopProcessing().
WorkerFail(w) ==
    /\ wg' = wg - 1
    /\ ctxDone' = TRUE
    /\ pc' = [pc EXCEPT ![w] = "failWait"]
    /\ terr' = [terr EXCEPT ![w] = "panic in processUpdates"]

WorkerReceivePeek(w) ==
    /\ pc[w] = "recv"
    /\ stateCh # <<>>
    /\ wjob' = [wjob EXCEPT ![w] = Head(stateCh)]
    /\ pc' = [pc EXCEPT ![w] = "waitState"]
    /\ UNCHANGED <<lifevars, terr>>
    /\ UNCHANGED <<updateCh, updateClosed, stateClosed, stateCh>>
    /\ UNCHANGED <<fvars, bjob, wstate, wdata, wtrans, wact, stvars, hist>>
    /\ UNCHANGED <<svars, uvars>>

\* for job := range updateWithStateCh
WorkerReceive(w) ==
    /\ pc[w] = "recv"
    /\ stateCh # <<>>
    /\ wjob' = [wjob EXCEPT ![w] = Head(stateCh)]
    /\ stateCh' = Tail(stateCh)
    /\ pc' = [pc EXCEPT ![w] = "waitState"]
    /\ UNCHANGED <<lifevars, terr>>
    /\ UNCHANGED <<updateCh, updateClosed, stateClosed>>
    /\ UNCHANGED <<fvars, bjob, wstate, wdata, wtrans, wact, stvars, hist>>
    /\ UNCHANGED <<svars, uvars>>

\* the channel is closed and drained: shutdown()
WorkerExit(w) ==
    /\ pc[w] = "recv"
    /\ stateCh = <<>>
    /\ stateClosed
    /\ wg' = wg - 1
    /\ pc' = [pc EXCEPT ![w] = "exited"]
    /\ UNCHANGED <<mainpc, nthreads, getMe, ctxDone, errCh, errLog, terr>>
    /\ UNCHANGED <<chanvars, fvars, bjob, wvars, stvars, hist>>
    /\ UNCHANGED <<svars, uvars>>

\* job.state.Wait()
WorkerWaitState(w) ==
    /\ pc[w] = "waitState"
    /\ WaitReady(conv, wjob[w].state)
    /\ wstate' = [wstate EXCEPT ![w] = Wait(conv, wjob[w].state)]
    /\ pc' = [pc EXCEPT ![w] = "waitUser"]
    /\ UNCHANGED <<lifevars, terr>>
    /\ UNCHANGED <<chanvars, fvars, bjob, wjob, wdata, wtrans, wact, stvars, hist>>
    /\ UNCHANGED <<svars, uvars>>

\* job.userData.Wait(); the handler is materialised and state.Handle is called.
WorkerWaitUserData(w) ==
    /\ pc[w] = "waitUser"
    /\ WaitReady(usr, wjob[w].userData)
    /\ wdata' = [wdata EXCEPT ![w] = Wait(usr, wjob[w].userData)]
    /\ pc' = [pc EXCEPT ![w] = "handle"]
    /\ hist' = [hist EXCEPT ![wjob[w].idx].status = "running",
                            ![wjob[w].idx].from = wstate[w],
                            ![wjob[w].idx].data = Wait(usr, wjob[w].userData)]
    /\ UNCHANGED <<lifevars, terr>>
    /\ UNCHANGED <<chanvars, fvars, bjob, wjob, wstate, wtrans, wact, stvars>>
    /\ UNCHANGED <<svars, uvars>>

\* state.Handle returns its transition, or panics (recovered: shutdown, fail).
WorkerHandle(w, out) ==
    /\ pc[w] = "handle"
    /\ IF out.some
       THEN /\ wtrans' = [wtrans EXCEPT ![w] = out]
            /\ wact' = [wact EXCEPT ![w] = IF out.v.Actions = <<>> THEN 0 ELSE 1]
            /\ pc' = [pc EXCEPT ![w] = IF out.v.Actions = <<>> THEN "returnState" ELSE "encode"]
            /\ hist' = [hist EXCEPT ![wjob[w].idx].status = "returned",
                                    ![wjob[w].idx].next = out.v.NewState,
                                    ![wjob[w].idx].nextData = out.v.UserData,
                                    ![wjob[w].idx].actions = out.v.Actions]
            /\ UNCHANGED <<wg, ctxDone, terr>>
       ELSE /\ WorkerFail(w)
            /\ hist' = [hist EXCEPT ![wjob[w].idx].status = "panicked"]
            /\ UNCHANGED <<wtrans, wact>>
    /\ UNCHANGED <<mainpc, nthreads, getMe, errCh, errLog>>
    /\ UNCHANGED <<chanvars, fvars, bjob, wjob, wstate, wdata, stvars>>
    /\ UNCHANGED <<svars, uvars>>

ActionAtReversed(w) == wtrans[w].v.Actions[Len(wtrans[w].v.Actions) - wact[w] + 1]

\* the action the range loop is at
ActionAt(w) == wtrans[w].v.Actions[wact[w]]

\* What the worker has done with the actions of its jobs, in the order done:
\* "begin" when DoJSONEncoded is called, "ok" or "sendError" when it returns,
\* "encodeError" when JSONEncode fails.
Event(w, what) ==
    [job |-> wjob[w].idx, index |-> wact[w], action |-> ActionAt(w), event |-> what]

AfterActionAbort(w, failed) ==
    IF failed
    THEN [pc |-> "recv", index |-> 0]
    ELSE IF wact[w] < Len(wtrans[w].v.Actions)
    THEN [pc |-> "encode", index |-> wact[w] + 1]
    ELSE [pc |-> "returnState", index |-> 0]

\* for _, action := range transition.Actions: after an action, failed or not,
\* the next one; after the last one, the two Returns.
AfterAction(w, failed) ==
    IF wact[w] < Len(wtrans[w].v.Actions)
    THEN [pc |-> "encode", index |-> wact[w] + 1]
    ELSE [pc |-> "returnState", index |-> 0]

\* endpoint, body, err := action.JSONEncode(); on an error: log, continue
WorkerEncode(w, ok) ==
    /\ pc[w] = "encode"
    /\ IF ok
       THEN /\ pc' = [pc EXCEPT ![w] = "sending"]
            /\ outbox' = Append(outbox, Event(w, "begin"))
            /\ UNCHANGED wact
       ELSE /\ pc' = [pc EXCEPT ![w] = AfterAction(w, TRUE).pc]
            /\ wact' = [wact EXCEPT ![w] = AfterAction(w, TRUE).index]
            /\ outbox' = Append(outbox, Event(w, "encodeError"))
    /\ UNCHANGED <<lifevars, terr>>
    /\ UNCHANGED <<chanvars, fvars, bjob, wjob, wstate, wdata, wtrans, stvars, hist>>
    /\ UNCHANGED <<svars, cvars, sent>>

\* _, err = c.requester.DoJSONEncoded(ctx, endpoint, body) returns; an error is logged
WorkerSent(w, ok) ==
    /\ pc[w] = "sending"
    /\ pc' = [pc EXCEPT ![w] = AfterAction(w, ~ok).pc]
    /\ wact' = [wact EXCEPT ![w] = AfterAction(w, ~ok).index]
    /\ outbox' = Append(outbox, Event(w, IF ok THEN "ok" ELSE "sendError"))
    /\ UNCHANGED <<lifevars, terr>>
    /\ UNCHANGED <<chanvars, fvars, bjob, wjob, wstate, wdata, wtrans, stvars, hist>>
    /\ UNCHANGED <<svars, cvars, sent>>

ReturnedStateOld(w) == wstate[w]

\* The state the worker hands to conversationStateStore.Return.
ReturnedState(w) == wtrans[w].v.NewState

\* if id, ok := job.update.StateID(); ok { c.conversationStateStore.Return(id, transition.NewState) }
WorkerReturnState(w) ==
    /\ pc[w] = "returnState"
    /\ LET key == StateID(wjob[w].update)
           r   == Return(conv, key.id, ReturnedState(w))
       IN  IF ~key.ok
           THEN /\ pc' = [pc EXCEPT ![w] = "returnUser"]
                /\ UNCHANGED <<wg, ctxDone, terr, conv, hist>>
           ELSE IF r.panic
           THEN /\ WorkerFail(w)
                /\ UNCHANGED <<conv, hist>>
           ELSE /\ conv' = r.S
                /\ hist' = [hist EXCEPT ![wjob[w].idx].returns = @ \cup {"state"}]
                /\ pc' = [pc EXCEPT ![w] = "returnUser"]
                /\ UNCHANGED <<wg, ctxDone, terr>>
    /\ UNCHANGED <<mainpc, nthreads, getMe, errCh, errLog>>
    /\ UNCHANGED <<chanvars, fvars, bjob, wvars, usr>>
    /\ UNCHANGED <<svars, uvars>>

\* if id, ok := job.update.UserID(); ok { c.userSharedDataStore.Return(id, transition.UserData) }
WorkerReturnUserData(w) ==
    /\ pc[w] = "returnUser"
    /\ LET key == UserID(wjob[w].update)
           r   == Return(usr, key.id, wtrans[w].v.UserData)
       IN  IF ~key.ok
           THEN /\ pc' = [pc EXCEPT ![w] = "recv"]
                /\ UNCHANGED <<wg, ctxDone, terr, usr, hist>>
           ELSE IF r.panic
           THEN /\ WorkerFail(w)
                /\ UNCHANGED <<usr, hist>>
           ELSE /\ usr' = r.S
                /\ hist' = [hist EXCEPT ![wjob[w].idx].returns = @ \cup {"userData"}]
                /\ pc' = [pc EXCEPT ![w] = "recv"]
                /\ UNCHANGED <<wg, ctxDone, terr>>
    /\ UNCHANGED <<mainpc, nthreads, getMe, errCh, errLog>>
    /\ UNCHANGED <<chanvars, fvars, bjob, wvars, conv>>
    /\ UNCHANGED <<svars, uvars>>

\* One step of the owner (Start, Stop, a receive from the error channel) or of
\* a task.  The server answers with a batch or with an error the loop does not
\* count: a counted error only moves `failures`, and what the loop does when
\* the counter runs out (FetcherTooManyErrors) is the recovered panic that a
\* migrate error already produces at any request.
Next ==
    \/ \E threads \in 0..MaxThreads, getMeOk \in BOOLEAN : Start(threads, getMeOk)
    \/ StopCancel
    \/ StopWait
    \/ ReceiveError
    \/ \E t \in Tasks : TaskStart(t)
    \/ \E t \in Tasks : FailWait(t)
    \/ \E t \in Tasks : FailSend(t)
    \/ FetcherCancelled
    \/ \E resp \in UncountedResponses(offset) : FetcherRequest(resp)
    \/ FetcherSend
    \/ BinderBind
    \/ BinderPut
    \/ BinderDone
    \/ BinderClose
    \/ \E w \in Workers : WorkerReceive(w)
    \/ \E w \in Workers : WorkerExit(w)
    \/ \E w \in Workers : WorkerWaitState(w)
    \/ \E w \in Workers : WorkerWaitUserData(w)
    \/ \E w \in Workers, out \in Outcomes : WorkerHandle(w, out)
    \/ \E w \in Workers : WorkerReturnState(w)
    \/ \E w \in Workers : WorkerReturnUserData(w)

SpecStorage == Init /\ [][StorageNext]_vars

Spec == Init /\ [][Next]_vars

(***************************************************************************)
(* SpecLock: the methods of the Storage with their first statement,        *)
(* s.storeMu.Lock(), called by clients on the Storage NewStorage returns.  *)
(* Locking through a nil *sync.Mutex is a nil pointer dereference: the     *)
(* call panics before the deferred Unlock is registered and before the map *)
(* is read.  A client whose call panicked stays where it panicked.         *)
(***************************************************************************)
LockPanics(S) == S.storeMu = NilMutex

\* s.storeMu.Lock(); defer s.storeMu.Unlock(); then the body of Set
SetLocked(S, key, value) ==
    IF LockPanics(S)
    THEN [nilLock |-> TRUE, r |-> [panic |-> TRUE, S |-> S]]
    ELSE [nilLock |-> FALSE, r |-> Set(S, key, value)]

\* the same for Borrow
BorrowLocked(S, key) ==
    IF LockPanics(S)
    THEN [nilLock |-> TRUE, r |-> [panic |-> TRUE, found |-> FALSE, future |-> 0, S |-> S]]
    ELSE [nilLock |-> FALSE, r |-> Borrow(S, key) @@ [panic |-> FALSE]]

\* the same for Return
ReturnLocked(S, key, value) ==
    IF LockPanics(S)
    THEN [nilLock |-> TRUE, r |-> [panic |-> TRUE, S |-> S]]
    ELSE [nilLock |-> FALSE, r |-> Return(S, key, value)]

\* store.Set(key, value) on the new Storage
LockSet(c, k, v) ==
    LET call == SetLocked(stg, k, v) IN
    /\ cpc[c] = "idle"
    /\ stg' = call.r.S
    /\ cpc' = [cpc EXCEPT ![c] = IF call.r.panic THEN "SetPanic" ELSE "idle"]
    /\ ckey' = [ckey EXCEPT ![c] = k]
    /\ lastGiven' = IF call.r.panic THEN lastGiven ELSE [lastGiven EXCEPT ![k] = v]
    /\ lastCall' = IF call.nilLock THEN "SetNilLock"
                   ELSE IF call.r.panic THEN "SetPanic" ELSE "Set"
    /\ UNCHANGED <<cfut, borrowOrder, returned, seen, got>>
    /\ UNCHANGED <<pvars, uvars>>

\* store.Borrow(key) on the new Storage
LockBorrow(c, k) ==
    LET call == BorrowLocked(stg, k) IN
    /\ cpc[c] = "idle"
    /\ Len(stg.heap) < MaxBorrows
    /\ stg' = call.r.S
    /\ cpc' = [cpc EXCEPT ![c] = IF call.r.panic THEN "BorrowPanic"
                                 ELSE IF call.r.found THEN "waiting" ELSE "idle"]
    /\ ckey' = [ckey EXCEPT ![c] = k]
    /\ IF call.r.found
       THEN /\ cfut' = [cfut EXCEPT ![c] = call.r.future]
            /\ borrowOrder' = [borrowOrder EXCEPT ![k] = Append(@, call.r.future)]
            /\ seen' = Append(seen, IF call.r.future \in Resolved(stg, call.r.S)
                                    THEN lastGiven[k] ELSE Unset)
            /\ got' = Append(got, Unset)
       ELSE UNCHANGED <<cfut, borrowOrder, seen, got>>
    /\ lastCall' = IF call.nilLock THEN "BorrowNilLock"
                   ELSE IF call.r.found THEN "Borrow" ELSE "BorrowMiss"
    /\ UNCHANGED <<returned, lastGiven>>
    /\ UNCHANGED <<pvars, uvars>>

\* store.Return(key, value) on the new Storage
LockReturn(c, k, v) ==
    LET call == ReturnLocked(stg, k, v) IN
    /\ cpc[c] = "idle"
    /\ stg' = call.r.S
    /\ cpc' = [cpc EXCEPT ![c] = IF call.r.panic THEN "ReturnPanic" ELSE "idle"]
    /\ ckey' = [ckey EXCEPT ![c] = k]
    /\ lastGiven' = IF call.r.panic THEN lastGiven ELSE [lastGiven EXCEPT ![k] = v]
    /\ lastCall' = IF call.nilLock THEN "ReturnNilLock"
                   ELSE IF call.r.panic THEN "ReturnPanic" ELSE "Return"
    /\ UNCHANGED <<cfut, borrowOrder, returned, seen, got>>
    /\ UNCHANGED <<pvars, uvars>>

NextLock ==
    \/ \E c \in Clients, k \in Keys, v \in Values : LockSet(c, k, v)
    \/ \E c \in Clients, k \in Keys : LockBorrow(c, k)
    \/ \E c \in Clients, k \in Keys, v \in Values : LockReturn(c, k, v)

SpecLock == Init /\ [][NextLock]_vars

\* C40: a call of Set on a key the Storage lacks, of Borrow on any key, and of
\* Return on a key the Storage has, made on the Storage as NewStorage returned
\* it, takes the lock and completes without a panic.
C40_ImmediatelyUsable ==
    \A c \in Clients :
        /\ cpc[c] = "SetPanic" => stg.store[ckey[c]].exists
        /\ cpc[c] # "BorrowPanic"
        /\ cpc[c] = "ReturnPanic" => ~stg.store[ckey[c]].exists

(***************************************************************************)
(* Claims about the pipeline (Spec).                                       *)
(***************************************************************************)
Jobs     == 1..Len(hist)
Keyed(j) == StateID(hist[j].update).ok
SameKey(i, j) ==
    /\ Keyed(i) /\ Keyed(j)
    /\ StateID(hist[i].update).id = StateID(hist[j].update).id

\* The job before j with j's state key, in stateQueue order; 0 when j is the first.
PrevSameKey(j) ==
    LET before == {i \in Jobs : i < j /\ SameKey(i, j)}
    IN  IF before = {} THEN 0 ELSE CHOOSE i \in before : \A k \in before : k <= i

Quiescent(t) == pc[t] \in {"none", "exited"}

\* C6 (as claimed): once Stop has returned, no task is running or still to run.
C6_StopQuiescent == mainpc = "stopped" => \A t \in Tasks : Quiescent(t)

\* A task has left its processing loop: it has returned, is shutting down, or
\* is inside fail.
LeftLoop(t) == pc[t] \in {"none", "exited", "closing", "failWait", "failSend"}

\* C7 (as claimed): whenever an error can be read from the channel of Start,
\* every task has left its processing loop.
C7_ErrorAfterTasks == errCh # <<>> => \A t \in Tasks : LeftLoop(t)

\* C8 (as claimed): at most one value is ever written to the error channel and
\* no fail blocks on its buffer.
C8_ErrorOneShot ==
    /\ Len(errLog) <= 1
    /\ ~\E t \in Tasks : pc[t] = "failSend" /\ Len(errCh) >= 1

\* C9 (as claimed): once the bad-credentials error is on the error channel, the
\* update channel is closed, the fetcher has returned and all tasks have stopped.
C9_UnauthorizedFatal ==
    (\E k \in 1..Len(errLog) : errLog[k] = "bad credentials")
        => /\ updateClosed
           /\ \A t \in Tasks : Quiescent(t)

StartFailed == mainpc # "init" /\ (nthreads = 0 \/ getMe = "failed")

\* C10: after Start with threads = 0 or with a failed GetMe, exactly one error has
\* been put on the channel, no task exists and no update is fetched or handled.
C10_StartPreconditions ==
    StartFailed =>
        /\ Len(errLog) = 1
        /\ \A t \in Tasks : pc[t] = "none"
        /\ wg = 0
        /\ offset = 0 /\ batch = <<>> /\ updateCh = <<>> /\ stateCh = <<>>
        /\ hist = <<>>

\* C10 witness: GetMe failed for a Start with MaxThreads threads; the owner has
\* received the error and its Stop has returned.
C10_Witness ==
    /\ StartFailed
    /\ nthreads = MaxThreads
    /\ errLog = <<"GetMeError">>
    /\ errCh = <<>>
    /\ mainpc = "stopped"

\* No task has failed and no error has been written.
NoFatal == errLog = <<>> /\ \A t \in Tasks : terr[t] = NoError

\* the ids of a sequence of updates or of jobs
IDs(q) == [k \in 1..Len(q) |-> q[k].ID]
JobIDs == [j \in 1..Len(hist) |-> hist[j].update.ID]

\* where job j is: in stateQueue's hands, in the job channel, with a worker
Places(j) ==
    (IF bjob.idx = j THEN 1 ELSE 0)
    + Cardinality({k \in 1..Len(stateCh) : stateCh[k].idx = j})
    + Cardinality({w \in Workers : wjob[w].idx = j})

\* job j has not reached a worker's handler / is with worker w in its handler
Waiting(j) ==
    \/ bjob.idx = j
    \/ \E k \in 1..Len(stateCh) : stateCh[k].idx = j
    \/ \E w \in Workers : wjob[w].idx = j /\ pc[w] \in {"waitState", "waitUser"}

\* C27: without a fatal error, the jobs are the updates the fetcher has sent,
\* one job per update and in the order sent, but for those still in the
\* update channel; a job is in one place and with one worker at most; its
\* handler is entered once and returns one transition; and when every task
\* has returned, every update sent has been handled.
C27_ExactlyOnce ==
    /\ [](NoFatal =>
            /\ JobIDs \o IDs(updateCh) = sent
            /\ \A j \in Jobs :
                /\ Places(j) <= 1
                /\ hist[j].status # "returned" => Places(j) = 1
                /\ hist[j].status = "queued" <=> Waiting(j)
            /\ (nthreads >= 1 /\ \A t \in Tasks : Quiescent(t))
                    => (updateCh = <<>> /\ \A j \in Jobs : hist[j].status = "returned"))
    /\ [][NoFatal' =>
            \A j \in Jobs :
                hist'[j].status # hist[j].status =>
                    /\ <<hist[j].status, hist'[j].status>>
                            \in {<<"queued", "running">>, <<"running", "returned">>}
                    /\ \A k \in Jobs \ {j} : hist'[k].status = hist[k].status]_vars

\* two updates were sent, each went to another worker, both were handled and
\* every task has returned
C27_Witness ==
    /\ NoFatal
    /\ sent = <<1, 2>>
    /\ nthreads = 2
    /\ \A t \in Tasks : Quiescent(t)
    /\ wjob[1].idx # wjob[2].idx /\ wjob[1].idx > 0 /\ wjob[2].idx > 0
    /\ \A j \in Jobs : hist[j].status = "returned"

UserKeyed(j) == UserID(hist[j].update).ok

\* The job before j of j's sender, in stateQueue order; 0 when j is the first.
PrevSameUser(j) ==
    LET before == {i \in Jobs : /\ i < j /\ UserKeyed(i)
                                /\ UserID(hist[i].update).id = UserID(hist[j].update).id}
    IN  IF before = {} THEN 0 ELSE CHOOSE i \in before : \A k \in before : k <= i

Sender(u) ==
    IF u.Message.some /\ u.Message.v.From.some
    THEN [ok |-> TRUE, id |-> u.Message.v.From.v]
    ELSE IF u.CallbackQuery.some
    THEN [ok |-> TRUE, id |-> u.CallbackQuery.v.From]
    ELSE [ok |-> FALSE, id |-> 0]

\* The job before j of j's sender; 0 when j is the sender's first.
PrevOfSender(j) ==
    LET before == {i \in Jobs : /\ i < j /\ Sender(hist[i].update).ok
                                /\ Sender(hist[i].update).id = Sender(hist[j].update).id}
    IN  IF before = {} THEN 0 ELSE CHOOSE i \in before : \A k \in before : k <= i

\* C37: a callback query is handled with the UserSharedData that the previous
\* update of its sender left under the sender's user key (the empty record
\* when it is the sender's first), and when its job is complete the user data
\* of its transition has been returned to the store.
C37_CallbackUserData ==
    \A j \in Jobs :
        hist[j].update.CallbackQuery.some =>
            /\ hist[j].status # "queued"
                => hist[j].data = IF PrevOfSender(j) = 0
                                  THEN NoAPIKey
                                  ELSE hist[PrevOfSender(j)].nextData
            /\ (hist[j].status = "returned" /\ ~\E w \in Workers : wjob[w].idx = j)
                => "userData" \in hist[j].returns

(***************************************************************************)
(* SpecLive: the pipeline with handlers that return (no panic inside       *)
(* state.Handle) under the fairness the Go scheduler gives: a goroutine    *)
(* that can take a step eventually takes one, and a Stop that was called   *)
(* returns once its wg.Wait() can.  The owner is free to call Stop or not, *)
(* and the server is free to answer or not.                                *)
(***************************************************************************)
\* What a handler returns here: the pipeline never branches on the transition,
\* so one transition that changes both the state and the user data stands for all.
Returning == {Some([NewState |-> "AddApiKey", UserData |-> "key", Actions |-> <<>>])}

\* The steps of one spawned task, but for the request the fetcher sends.
TaskStep(t) ==
    \/ TaskStart(t)
    \/ FailWait(t)
    \/ FailSend(t)
    \/ t = Fetcher /\ (FetcherCancelled \/ FetcherSend)
    \/ t = Binder /\ (BinderBind \/ BinderPut \/ BinderDone \/ BinderClose)
    \/ /\ t \in Workers
       /\ \/ WorkerReceive(t)
          \/ WorkerExit(t)
          \/ WorkerWaitState(t)
          \/ WorkerWaitUserData(t)
          \/ \E out \in Returning : WorkerHandle(t, out)
          \/ WorkerReturnState(t)
          \/ WorkerReturnUserData(t)

NextLive ==
    \/ \E threads \in 0..MaxThreads, getMeOk \in BOOLEAN : Start(threads, getMeOk)
    \/ StopCancel
    \/ StopWait
    \/ ReceiveError
    \/ \E resp \in UncountedResponses(offset) : FetcherRequest(resp)
    \/ \E t \in Tasks : TaskStep(t)

SpecLive ==
    /\ Init
    /\ [][NextLive]_vars
    /\ \A t \in Tasks : WF_vars(TaskStep(t))
    /\ WF_vars(StopWait)

\* Job j is complete: its handler returned and the worker has given both
\* borrowed values back.
Done(j) ==
    /\ hist[j].status = "returned"
    /\ ~\E w \in Workers :
            wjob[w].idx = j /\ pc[w] \in {"encode", "sending", "returnState", "returnUser"}

InUpdateCh(i) == \E k \in 1..Len(updateCh) : updateCh[k].ID = i
JobsOf(i)     == {j \in Jobs : hist[j].update.ID = i}

\* Every worker Start spawned has returned; nothing is left in the pipeline.
WorkersExited == nthreads >= 1 /\ \A w \in 1..nthreads : pc[w] = "exited"
Drained ==
    /\ updateCh = <<>> /\ stateCh = <<>> /\ bjob = NoJob
    /\ \A j \in Jobs : Done(j)

WorkerPanic(w) == WorkerHandle(w, None)

\* The server answers with a batch, or with the error that makes getUpdates
\* panic (migrate_to_chat_id and nothing else).
PanicResponses(off) ==
    {r \in Responses(off) :
        r.ok \/ (r.apiErr.migrate /\ ~r.apiErr.unauthorized /\ ~r.apiErr.retryAfter)}

NextPanic ==
    \/ \E threads \in 0..MaxThreads, getMeOk \in BOOLEAN : Start(threads, getMeOk)
    \/ StopCancel
    \/ StopWait
    \/ ReceiveError
    \/ \E resp \in PanicResponses(offset) : FetcherRequest(resp)
    \/ \E t \in Tasks : TaskStep(t)
    \/ \E w \in Workers : WorkerPanic(w)

SpecPanic ==
    /\ Init
    /\ [][NextPanic]_vars
    /\ \A t \in Tasks : WF_vars(TaskStep(t))
    /\ WF_vars(StopWait)
    /\ WF_vars(ReceiveError)

Panics == {"panic in getUpdates", TooManyErrors,
           "panic in stateQueue", "panic in processUpdates"}

\* Task t recovered a panic and c.fail has put its error into the channel.
Delivered(t) == terr[t] \in Panics /\ pc[t] = "exited"

\* C21 (as claimed): once a task has recovered a panic, its error is eventually
\* delivered on the error channel and every task has returned.
C21_PanicContained ==
    \A t \in Tasks :
        (terr[t] \in Panics) ~> (Delivered(t) /\ \A u \in Tasks : Quiescent(u))

(***************************************************************************)
(* SpecFetch: getUpdates with the request as a step of its own, every      *)
(* answer the server can give (batches of up to FetchBatch updates in any  *)
(* order, counted and uncounted errors), and a request that the cancelled  *)
(* context aborts.  One worker, handlers that return.                      *)
(***************************************************************************)
RetrySeconds == 2       \* the retry_after of a rate-limited answer

TransportError == [unauthorized |-> FALSE, retryAfter |-> FALSE, migrate |-> FALSE]

\* the updates of one conversation, so that the answers differ by their ids only
FetchBatches(off) ==
    {b \in Batches(off, FetchBatch) :
        \A k \in 1..Len(b) : b[k].Message = MessageFrom(100, 7).Message}

FetchResponses(off) ==
    {[ok |-> TRUE, updates |-> b] : b \in FetchBatches(off)}
    \cup {[ok |-> FALSE, apiErr |-> e, wait |-> IF e.retryAfter THEN RetrySeconds ELSE 0] :
            e \in APIErrors}

\* if err != nil { if ... 401 ... else if retry_after ... else if migrate ... }
VerdictNoRetry(resp) ==
    IF resp.ok THEN "ok"
    ELSE IF resp.apiErr.unauthorized THEN "unauthorized"
    ELSE IF resp.apiErr.migrate THEN "migrate"
    ELSE "counted"

Verdict(resp) ==
    IF resp.ok THEN "ok"
    ELSE IF resp.apiErr.unauthorized THEN "unauthorized"
    ELSE IF resp.apiErr.retryAfter THEN "retry"
    ELSE IF resp.apiErr.migrate THEN "migrate"
    ELSE "counted"

\* failures after an answer: failures++ for a counted error, 0 after a success
FailuresAfterNoReset(resp, n) ==
    IF Verdict(resp) = "counted" THEN n + 1 ELSE n

FailuresAfter(resp, n) ==
    IF Verdict(resp) = "ok" THEN 0 ELSE IF Verdict(resp) = "counted" THEN n + 1 ELSE n

\* select { ... default: the request leaves with the current offset
FetcherBegin ==
    /\ pc[Fetcher] = "loop"
    /\ failures < getUpdatesRetries
    /\ ~ctxDone
    /\ pc' = [pc EXCEPT ![Fetcher] = "request"]
    /\ fin' = [fn |-> "Request", offset |-> offset, failures |-> failures]
    /\ UNCHANGED <<lifevars, chanvars, terr, fvars, bjob, wvars, stvars, hist>>
    /\ UNCHANGED <<svars, fout, sent, outbox>>

\* updates, err := getUpdates.Request(...) has returned: what the loop does
\* with the answer up to the next iteration or the first send.
Answered(resp, cancelled) ==
    /\ pc[Fetcher] = "request"
    /\ IF Verdict(resp) = "unauthorized"
       THEN FetcherFail("bad credentials")
       ELSE IF Verdict(resp) = "retry"
       THEN /\ pc' = [pc EXCEPT ![Fetcher] = "loop"]     \* time.Sleep; continue
            /\ UNCHANGED <<lifevars, chanvars, terr, fvars, bjob, wvars, stvars, hist>>
       ELSE IF Verdict(resp) = "migrate"
       THEN FetcherFail("panic in getUpdates")
       ELSE /\ failures' = FailuresAfter(resp, failures)
            /\ batch' = IF resp.ok THEN resp.updates ELSE batch
            /\ pc' = [pc EXCEPT ![Fetcher] =
                        IF resp.ok /\ resp.updates # <<>> THEN "send" ELSE "loop"]
            /\ UNCHANGED <<offset, terr>>
            /\ UNCHANGED <<lifevars, chanvars, bjob, wvars, stvars, hist>>
    /\ fout' = [fn |-> "Request", resp |-> resp, cancelled |-> cancelled,
                slept |-> IF Verdict(resp) = "retry" THEN resp.wait ELSE 0]
    /\ UNCHANGED <<svars, fin, sent, outbox>>

\* the server answers
FetcherAnswer(resp) == Answered(resp, FALSE)

\* the context is cancelled while the request is in flight: Client.Do returns
\* the context's error, which is not an APIError
FetcherAborted ==
    /\ ctxDone
    /\ Answered([ok |-> FALSE, apiErr |-> TransportError, wait |-> 0], TRUE)

FetchStep(t) ==
    \/ TaskStep(t)
    \/ t = Fetcher /\ (FetcherAborted \/ FetcherTooManyErrors)

NextFetch ==
    \/ Start(1, TRUE)
    \/ StopCancel
    \/ StopWait
    \/ ReceiveError
    \/ FetcherBegin
    \/ \E resp \in FetchResponses(offset) : FetcherAnswer(resp)
    \/ \E t \in Tasks : FetchStep(t)

SpecFetch ==
    /\ Init
    /\ [][NextFetch]_vars
    /\ \A t \in Tasks : WF_vars(FetchStep(t))
    /\ WF_vars(StopWait)
    /\ WF_vars(ReceiveError)

\* The request the fetcher made last has been answered in this step.
AnswerStep == pc[Fetcher] = "request" /\ pc'[Fetcher] # "request"

\* getUpdates has left its loop: it has run shutdown()
FetcherLeft == pc[Fetcher] \in {"exited", "failWait", "failSend"}

\* C22 (as claimed): when the owner calls Stop, the fetcher closes the update
\* channel, once, and returns, whatever its failure count and with or without
\* a request in flight; and a request the cancellation has ended is followed
\* by no error on the error channel.
C22_CleanCancel ==
    /\ [](fout.fn = "Request" /\ fout.cancelled
            => terr[Fetcher] = NoError /\ errLog = <<>>)
    /\ [][(FetcherLeft' /\ ~FetcherLeft) => (~updateClosed /\ updateClosed')]_vars
    /\ [][FetcherLeft => updateClosed' = updateClosed]_vars
    /\ (mainpc = "stopping" /\ pc[Fetcher] # "none" /\ terr[Fetcher] = NoError)
            ~> (pc[Fetcher] = "exited" /\ updateClosed)

\* C23: failures grows by one with every counted error (transport, parse or
\* plain API error), returns to 0 with every successful fetch and moves at no
\* other step; the too-many-errors panic happens at 10 failures and only
\* then, and no request leaves with 10 failures.
C23_RetryCeiling ==
    /\ [][AnswerStep =>
            failures' = IF fout'.resp.ok THEN 0
                        ELSE IF \/ fout'.resp.apiErr.unauthorized
                                \/ fout'.resp.apiErr.retryAfter
                                \/ fout'.resp.apiErr.migrate
                             THEN failures
                             ELSE failures + 1]_vars
    /\ [][~AnswerStep => failures' = failures]_vars
    /\ [](terr[Fetcher] = TooManyErrors => failures = getUpdatesRetries)
    /\ []((pc[Fetcher] \in {"loop", "request", "send"} /\ failures >= getUpdatesRetries)
            => (pc[Fetcher] = "loop" /\ failures = getUpdatesRetries))
    /\ [][(pc[Fetcher] = "loop" /\ failures = getUpdatesRetries /\ pc'[Fetcher] # "loop")
            => terr'[Fetcher] = TooManyErrors]_vars

\* nine failures, a success that resets the counter, ten more failures, the panic
C23_Witness ==
    /\ terr[Fetcher] = TooManyErrors
    /\ failures = getUpdatesRetries
    /\ fin.fn = "Request" /\ fin.failures = getUpdatesRetries - 1
    /\ offset > 0

RECURSIVE MaxID(_)
MaxID(b) == IF b = <<>> THEN -1
            ELSE IF Head(b).ID > MaxID(Tail(b)) THEN Head(b).ID ELSE MaxID(Tail(b))

Max(a, b) == IF a >= b THEN a ELSE b

\* C24: the offset never decreases; a request leaves with the offset of the
\* request before it if that one failed or brought no update, and else with
\* the greater of that offset and the largest id of the batch plus one,
\* whatever the order of the ids in the batch.
C24_OffsetMonotone ==
    /\ [][offset' >= offset]_vars
    /\ [][(pc'[Fetcher] = "request" /\ pc[Fetcher] # "request" /\ fin.fn = "Request") =>
            fin'.offset = IF fout.resp.ok /\ fout.resp.updates # <<>>
                          THEN Max(fin.offset, MaxID(fout.resp.updates) + 1)
                          ELSE fin.offset]_vars
    /\ [][(AnswerStep /\ (~fout'.resp.ok \/ fout'.resp.updates = <<>>))
            => offset' = offset]_vars

\* the batch <2, 1> has been forwarded and the next request has left with offset 3
C24_Witness ==
    /\ pc[Fetcher] = "request"
    /\ fout.fn = "Request" /\ fout.resp.ok
    /\ Len(fout.resp.updates) = 2
    /\ fout.resp.updates[1].ID = 2 /\ fout.resp.updates[2].ID = 1
    /\ sent = <<2, 1>>
    /\ fin.offset = 3

\* C25: an answer with retry_after that is not a 401 makes the fetcher sleep
\* that many seconds and go on: failures and offset stay, nothing is closed,
\* nothing fails.
C25_RateLimit ==
    [][(AnswerStep /\ ~fout'.resp.ok /\ fout'.resp.apiErr.retryAfter
                   /\ ~fout'.resp.apiErr.unauthorized)
        => /\ fout'.slept = fout'.resp.wait
           /\ failures' = failures /\ offset' = offset
           /\ pc'[Fetcher] = "loop"
           /\ updateClosed' = updateClosed /\ terr' = terr]_vars

\* nine failures, then a rate-limited answer: the fetcher is back in its loop
C25_Witness ==
    /\ pc[Fetcher] = "loop"
    /\ fout.fn = "Request" /\ ~fout.resp.ok
    /\ fout.resp.apiErr.retryAfter /\ ~fout.resp.apiErr.unauthorized
    /\ fout.slept = RetrySeconds
    /\ failures = getUpdatesRetries - 1
    /\ offset > 0
    /\ ~updateClosed

\* C26 (as claimed): after a failed answer with migrate_to_chat_id, whatever
\* else it carries, the fetcher makes no further request, has closed the
\* update channel and fails with a fatal error.
C26_MigrateFatal ==
    (fout.fn = "Request" /\ ~fout.resp.ok /\ fout.resp.apiErr.migrate)
        => (FetcherLeft /\ updateClosed /\ terr[Fetcher] # NoError)

(***************************************************************************)
(* SpecSend: the pipeline with transitions that carry actions.  The        *)
(* handlers return; an action may fail to encode and a request may fail.   *)
(***************************************************************************)
\* The transition a handler returns here: the pipeline does not look into an
\* action, so one list of two stands for all.
SendActions == <<"sendMessage", "answerCallbackQuery">>
Sending == {Some([NewState |-> "AddApiKey", UserData |-> "key", Actions |-> SendActions])}

\* The server answers with messages of one sender, or rejects the token.
SendResponses(off) ==
    {r \in Responses(off) :
        IF r.ok
        THEN \A k \in 1..Len(r.updates) :
                \E c \in ChatIDs : r.updates[k].Message = MessageFrom(c, 7).Message
        ELSE r.apiErr = [unauthorized |-> TRUE, retryAfter |-> FALSE, migrate |-> FALSE]}

SendStep(t) ==
    \/ TaskStep(t)
    \/ /\ t \in Workers
       /\ \/ \E out \in Sending : WorkerHandle(t, out)
          \/ \E ok \in BOOLEAN : WorkerEncode(t, ok)
          \/ \E ok \in BOOLEAN : WorkerSent(t, ok)

NextSend ==
    \/ \E threads \in 1..MaxThreads : Start(threads, TRUE)
    \/ StopCancel
    \/ StopWait
    \/ ReceiveError
    \/ \E resp \in SendResponses(offset) : FetcherRequest(resp)
    \/ \E t \in Tasks : SendStep(t)

SpecSend == Init /\ [][NextSend]_vars

\* the positions of outbox that are of job j, and what was done for job j
Positions(j) == {k \in 1..Len(outbox) : outbox[k].job = j}
IsJob(j, e) == e.job = j
JobLog(j)   == SelectSeq(outbox, LAMBDA e : IsJob(j, e))

Finishing == {"ok", "sendError", "encodeError"}
Failing   == {"sendError", "encodeError"}

\* every action of job j's transition has been attempted and none is under way
Attempted(j) ==
    /\ hist[j].status = "returned"
    /\ \A i \in 1..Len(hist[j].actions) :
            \E k \in Positions(j) : outbox[k].index = i /\ outbox[k].event \in Finishing
    /\ \A k \in Positions(j) :
            outbox[k].event = "begin"
                => \E m \in Positions(j) :
                        m > k /\ outbox[m].index = outbox[k].index

Failed(j) == \E k \in Positions(j) : outbox[k].event \in Failing

\* what the worker gives back for job j: the state and the user data, as far
\* as the update has the keys
Due(j) ==
    (IF StateID(hist[j].update).ok THEN {"state"} ELSE {})
    \cup (IF UserID(hist[j].update).ok THEN {"userData"} ELSE {})

\* a worker is at job j, between Handle and the second Return
AtWork(j) ==
    \E w \in Workers :
        wjob[w].idx = j /\ pc[w] \in {"encode", "sending", "returnState", "returnUser"}

Processing ==
    {w \in Workers :
        pc[w] \in {"waitState", "waitUser", "handle", "encode", "sending",
                   "returnState", "returnUser"}}

\* the jobs that borrowed the state of key k, the user data of user k
JobsOnState(k) == {j \in 1..Len(hist) : StateID(hist[j].update) = [ok |-> TRUE, id |-> k]}
JobsOnUser(k)  == {j \in 1..Len(hist) : UserID(hist[j].update) = [ok |-> TRUE, id |-> k]}

Last(J) == CHOOSE j \in J : \A i \in J : i <= j

Stores == {"State", "User"}

\* where stateQueue is: before the first Borrow, before Set, before the second Borrow
AtBorrow(which)   == IF which = "State" THEN "borrowState"   ELSE "borrowUser"
AtSet(which)      == IF which = "State" THEN "setState"      ELSE "setUser"
AtReborrow(which) == IF which = "State" THEN "reborrowState" ELSE "reborrowUser"

\* the store, the key of the update in hand and the initial value, for
\* borrowState and for borrowUserData
StoreOf(which)   == IF which = "State" THEN conv ELSE usr
HandleOf(which)  == IF which = "State" THEN StateID(bjob.update) ELSE UserID(bjob.update)
InitialOf(which) == IF which = "State" THEN RootState ELSE NoAPIKey

\* for upd := range updateCh
BinderReceive ==
    /\ pc[Binder] = "recv"
    /\ updateCh # <<>>
    /\ updateCh' = Tail(updateCh)
    /\ bjob' = [idx |-> 0, update |-> Head(updateCh), state |-> 0, userData |-> 0]
    /\ pc' = [pc EXCEPT ![Binder] = AtBorrow("State")]
    /\ UNCHANGED <<lifevars, terr>>
    /\ UNCHANGED <<updateClosed, stateCh, stateClosed>>
    /\ UNCHANGED <<fvars, wvars, stvars, hist>>
    /\ UNCHANGED <<svars, uvars>>

\* the future is in hand: the user data is next; after it the job is built
BinderHas(which, S, f) ==
    /\ conv' = IF which = "State" THEN S ELSE conv
    /\ usr'  = IF which = "User" THEN S ELSE usr
    /\ IF which = "State"
       THEN /\ bjob' = [bjob EXCEPT !.state = f]
            /\ pc' = [pc EXCEPT ![Binder] = AtBorrow("User")]
            /\ UNCHANGED hist
       ELSE /\ bjob' = [bjob EXCEPT !.userData = f, !.idx = Len(hist) + 1]
            /\ hist' = Append(hist, [update |-> bjob.update, status |-> "queued",
                                     from |-> ZeroValue, next |-> ZeroValue,
                                     data |-> ZeroValue, nextData |-> ZeroValue,
                                     actions |-> <<>>, returns |-> {}])
            /\ pc' = [pc EXCEPT ![Binder] = "put"]
    /\ UNCHANGED <<wg, stateClosed, ctxDone, terr>>

\* a panic of stateQueue: recovered, shutdown(), c.fail
BinderPanic ==
    /\ wg' = wg - 1
    /\ stateClosed' = TRUE
    /\ ctxDone' = TRUE
    /\ pc' = [pc EXCEPT ![Binder] = "failWait"]
    /\ terr' = [terr EXCEPT ![Binder] = "panic in stateQueue"]
    /\ UNCHANGED <<stvars, bjob, hist>>

\* the immediate future of an update without the key, or the first Borrow
BinderBorrow(which) ==
    /\ pc[Binder] = AtBorrow(which)
    /\ IF ~HandleOf(which).ok
       THEN LET r == NewImmediateFuture(StoreOf(which), InitialOf(which))
            IN  BinderHas(which, r.S, r.future)
       ELSE LET b == Borrow(StoreOf(which), HandleOf(which).id) IN
            IF b.found
            THEN BinderHas(which, b.S, b.future)
            ELSE /\ pc' = [pc EXCEPT ![Binder] = AtSet(which)]
                 /\ UNCHANGED <<wg, stateClosed, ctxDone, terr, stvars, bjob, hist>>
    /\ UNCHANGED <<mainpc, nthreads, getMe, errCh, errLog>>
    /\ UNCHANGED <<updateCh, updateClosed, stateCh, fvars, wvars>>
    /\ UNCHANGED <<svars, uvars>>

\* the Set after a miss
BinderSet(which) ==
    /\ pc[Binder] = AtSet(which)
    /\ LET r == Set(StoreOf(which), HandleOf(which).id, InitialOf(which)) IN
       IF r.panic
       THEN BinderPanic
       ELSE /\ conv' = IF which = "State" THEN r.S ELSE conv
            /\ usr'  = IF which = "User" THEN r.S ELSE usr
            /\ pc' = [pc EXCEPT ![Binder] = AtReborrow(which)]
            /\ UNCHANGED <<wg, stateClosed, ctxDone, terr, bjob, hist>>
    /\ UNCHANGED <<mainpc, nthreads, getMe, errCh, errLog>>
    /\ UNCHANGED <<updateCh, updateClosed, stateCh, fvars, wvars>>
    /\ UNCHANGED <<svars, uvars>>

\* the Borrow after the Set; "did not lend a value" when it misses
BinderReborrow(which) ==
    /\ pc[Binder] = AtReborrow(which)
    /\ LET b == Borrow(StoreOf(which), HandleOf(which).id) IN
       IF b.found
       THEN BinderHas(which, b.S, b.future)
       ELSE BinderPanic
    /\ UNCHANGED <<mainpc, nthreads, getMe, errCh, errLog>>
    /\ UNCHANGED <<updateCh, updateClosed, stateCh, fvars, wvars>>
    /\ UNCHANGED <<svars, uvars>>

BindStep(t) ==
    \/ TaskStart(t)
    \/ FailWait(t)
    \/ FailSend(t)
    \/ t = Fetcher /\ (FetcherCancelled \/ FetcherSend)
    \/ /\ t = Binder
       /\ \/ BinderReceive
          \/ \E which \in Stores : BinderBorrow(which)
          \/ \E which \in Stores : BinderSet(which)
          \/ \E which \in Stores : BinderReborrow(which)
          \/ BinderPut
          \/ BinderDone
          \/ BinderClose
    \/ /\ t \in Workers
       /\ \/ WorkerReceive(t)
          \/ WorkerExit(t)
          \/ WorkerWaitState(t)
          \/ WorkerWaitUserData(t)
          \/ \E out \in Returning : WorkerHandle(t, out)
          \/ WorkerReturnState(t)
          \/ WorkerReturnUserData(t)

NextBind ==
    \/ \E threads \in 0..MaxThreads, getMeOk \in BOOLEAN : Start(threads, getMeOk)
    \/ StopCancel
    \/ StopWait
    \/ ReceiveError
    \/ \E resp \in UncountedResponses(offset) : FetcherRequest(resp)
    \/ \E t \in Tasks : BindStep(t)

SpecBind == Init /\ [][NextBind]_vars

StalledUpdate == MessageFrom(100, 7)
OtherUpdate   == MessageFrom(200, 8)

\* one update for the stalled handler, one for each other worker, one more
StallUpdates == MaxThreads + 1

StallResponses(off) ==
    {[ok |-> TRUE,
      updates |-> <<[ID |-> i, Message |-> sh.Message, CallbackQuery |-> sh.CallbackQuery]>>] :
        i \in {i \in 1..StallUpdates : i >= off}, sh \in {StalledUpdate, OtherUpdate}}

\* the handler invocation that never returns: the first for the conversation
Stalled(j) ==
    /\ StateID(hist[j].update) = StateID(StalledUpdate)
    /\ \A i \in 1..(j - 1) : StateID(hist[i].update) # StateID(StalledUpdate)

StallHandle(w) ==
    /\ pc[w] = "handle"
    /\ ~Stalled(wjob[w].idx)
    /\ \E out \in Returning : WorkerHandle(w, out)

StallStep(t) ==
    \/ TaskStart(t)
    \/ t = Fetcher /\ FetcherSend
    \/ t = Binder /\ (BinderBind \/ BinderPut)
    \/ /\ t \in Workers
       /\ \/ WorkerReceive(t)
          \/ WorkerWaitState(t)
          \/ WorkerWaitUserData(t)
          \/ StallHandle(t)
          \/ WorkerReturnState(t)
          \/ WorkerReturnUserData(t)

StallRequest == \E resp \in StallResponses(offset) : FetcherRequest(resp)

NextStall ==
    \/ \E threads \in 2..MaxThreads : Start(threads, TRUE)
    \/ StallRequest
    \/ \E t \in Tasks : StallStep(t)

SpecStall ==
    /\ Init
    /\ [][NextStall]_vars
    /\ \A t \in Tasks : WF_vars(StallStep(t))
    /\ WF_vars(StallRequest)

\* C36: with at least two workers and one handler invocation of a conversation
\* that never returns, every job of the other conversation (other state key,
\* other user) is eventually handled and complete.
C36_OthersIsolated ==
    \A j \in 1..StallUpdates :
        (Len(hist) >= j /\ StateID(hist[j].update) = StateID(OtherUpdate))
            ~> (Len(hist) >= j /\ Done(j))

(***************************************************************************)
(* SpecCalls: functions without shared state.  A string is the sequence of *)
(* its characters.                                                         *)
(***************************************************************************)
IsSpace(c) == c \in {" ", "\t"}     \* unicode.IsSpace, on the characters used here

\* strings.TrimPrefix
TrimPrefix(s, prefix) ==
    IF Len(s) >= Len(prefix) /\ SubSeq(s, 1, Len(prefix)) = prefix
    THEN SubSeq(s, Len(prefix) + 1, Len(s))
    ELSE s

\* strings.TrimSpace
TrimSpace(s) ==
    LET inner == {i \in 1..Len(s) : ~IsSpace(s[i])}
    IN  IF inner = {}
        THEN <<>>
        ELSE SubSeq(s, CHOOSE i \in inner : \A k \in inner : i <= k,
                       CHOOSE i \in inner : \A k \in inner : k <= i)

(***************************************************************************)
(* state.Handle and handleMessage (handler.go).  The result names the      *)
(* Handler method that was called and the text it was given.               *)
(***************************************************************************)
ChatTypes == {"private", "group", "supergroup", "channel", "other"}
Texts     == {<<>>, <<"a">>, <<"@", "b">>, <<"@", "b", " ", "a">>,
              <<" ", "@", "b", " ", "a">>, <<"a", " ">>, <<"@", "b", "a">>}
BotNames  == {None, Some(<<>>), Some(<<"b">>)}

DispatchMessages ==
    [ChatType : ChatTypes,
     Text     : {None} \cup {Some(t) : t \in Texts},
     From     : {None, Some(7)}]
DispatchUpdates ==
    [Message       : {None} \cup {Some(m) : m \in DispatchMessages},
     CallbackQuery : {None, Some([From |-> 7])}]

Ignored == [ok |-> FALSE, method |-> "Ignore", text |-> <<>>]

\* bot.Username.UnwrapOr("") != "": the mention is cut off, then the spaces.
Unmention(bot, text) ==
    IF bot.some /\ bot.v # <<>>
    THEN TrimSpace(TrimPrefix(text, <<"@">> \o bot.v))
    ELSE text

handleMessage(bot, message) ==
    IF message.ChatType \in {"private", "group"}
    THEN IF ~message.Text.some
         THEN Ignored
         ELSE IF ~message.From.some
         THEN Ignored
         ELSE [ok     |-> TRUE,
               method |-> IF message.ChatType = "private"
                          THEN "PrivateTextMessage" ELSE "GroupTextMessage",
               text   |-> Unmention(bot, message.Text.v)]
    ELSE Ignored

\* Handle: a message that handleMessage takes; state.Ignore() for all the rest.
Handle(bot, upd) ==
    IF upd.Message.some /\ handleMessage(bot, upd.Message.v).ok
    THEN handleMessage(bot, upd.Message.v)
    ELSE Ignored

(***************************************************************************)
(* slashcmd (slashcmd.go): Parse, splitArgs, Command.NextAfter.            *)
(***************************************************************************)
Chars == {"/", " ", "\t", "a", "\"", "\\"}
Strs  == UNION {[1..n -> Chars] : n \in 0..MaxLen}

\* Parse is also given commands with a longer tail, so that the tokeniser
\* meets quotes, escapes and separators behind a method.
ParseInputs == Strs \cup {<<"/", "a", " ">> \o t : t \in Strs}

NoCommand == [Method |-> <<>>, Args |-> <<>>]      \* Command{}

\* the closures of splitArgs, on its local variables
appendToCurrent(st, char) == [st EXCEPT !.curArg = Append(@, char)]

finalizeArgAlways(st) ==
    [st EXCEPT !.args = Append(@, st.curArg), !.curArg = <<>>]

finalizeArg(st) ==
    [st EXCEPT !.args   = IF st.curArg # <<>> THEN Append(@, st.curArg) ELSE @,
               !.curArg = <<>>]

\* the loop of splitArgs from character i on, then the last finalizeArg
RECURSIVE splitArgsFrom(_, _, _)
splitArgsFrom(source, i, st) ==
    IF i > Len(source)
    THEN finalizeArg(st).args
    ELSE LET char == source[i] IN
         IF char = "\"" /\ ~st.isEscaped
         THEN splitArgsFrom(source, i + 1, [st EXCEPT !.isQuoted = ~@])
         ELSE IF char = "\\" /\ ~st.isEscaped
         THEN splitArgsFrom(source, i + 1, [st EXCEPT !.isEscaped = TRUE])
         ELSE LET nxt == IF IsSpace(char) /\ ~(st.isQuoted \/ st.isEscaped)
                         THEN finalizeArg(st)
                         ELSE appendToCurrent(st, char)
              IN  splitArgsFrom(source, i + 1, [nxt EXCEPT !.isEscaped = FALSE])

splitArgs(source) ==
    splitArgsFrom(source, 1,
        [args |-> <<>>, curArg |-> <<>>, isQuoted |-> FALSE, isEscaped |-> FALSE])

\* strings.SplitN(source, " ", 2): cut at the first U+0020, if there is one
SplitN2(source) ==
    LET sp == {i \in 1..Len(source) : source[i] = " "} IN
    IF sp = {}
    THEN <<source>>
    ELSE LET i == CHOOSE x \in sp : \A y \in sp : x <= y
         IN  <<SubSeq(source, 1, i - 1), SubSeq(source, i + 1, Len(source))>>

\* the closure parse of Parse
parse(firstWord, wordsAfter) ==
    IF firstWord = <<>> \/ firstWord[1] # "/" \/ Tail(firstWord) = <<>>
    THEN [cmd |-> NoCommand, ok |-> FALSE]
    ELSE [cmd |-> [Method |-> Tail(firstWord), Args |-> splitArgs(wordsAfter)],
          ok  |-> TRUE]

Parse(source) ==
    LET parts == SplitN2(source) IN
    IF Len(parts) = 1 THEN parse(parts[1], <<>>) ELSE parse(parts[1], parts[2])

\* NextAfter: the loop from index i on
RECURSIVE NextAfterFrom(_, _, _)
NextAfterFrom(c, key, i) ==
    IF i > Len(c.Args)
    THEN [v |-> <<>>, ok |-> FALSE]
    ELSE IF c.Args[i] = key /\ Len(c.Args) > i
    THEN [v |-> c.Args[i + 1], ok |-> TRUE]
    ELSE NextAfterFrom(c, key, i + 1)

NextAfterLast(c, key) ==
    LET I == {i \in 1..(Len(c.Args) - 1) : c.Args[i] = key} IN
    IF I = {}
    THEN [v |-> <<>>, ok |-> FALSE]
    ELSE [v |-> c.Args[(CHOOSE i \in I : \A k \in I : k <= i) + 1], ok |-> TRUE]

NextAfter(c, key) == NextAfterFrom(c, key, 1)

Tokens   == {<<"a">>, <<"b">>, <<>>}
ArgLists == UNION {[1..n -> Tokens] : n \in 0..MaxArgs}

(***************************************************************************)
(* option.Option[string] and its JSON codec (option.go), as encoding/json  *)
(* drives it for a struct field such as Message.Text.                      *)
(***************************************************************************)
StringValues == {<<>>, <<"a">>}
JSONNull     == <<"n", "u", "l", "l">>

\* json.Marshal of a string: the characters between double quotes
MarshalString(v) == <<"\"">> \o v \o <<"\"">>

\* json.Unmarshal(data, &parsed) for a string that holds `parsed`: null leaves
\* the variable as it is, a JSON string is stored, anything else is an error.
UnmarshalString(data, parsed) ==
    IF data = JSONNull
    THEN [parsed |-> parsed, err |-> FALSE]
    ELSE IF Len(data) >= 2 /\ data[1] = "\"" /\ data[Len(data)] = "\""
    THEN [parsed |-> SubSeq(data, 2, Len(data) - 1), err |-> FALSE]
    ELSE [parsed |-> parsed, err |-> TRUE]

\* (*Option[T]).UnmarshalJSON: parsed starts as the zero T
UnmarshalJSON(o, data) ==
    LET r == UnmarshalString(data, <<>>) IN
    IF r.err
    THEN [o |-> o, err |-> TRUE]
    ELSE [o |-> Some(r.parsed), err |-> FALSE]

\* Option[T].MarshalJSON
MarshalJSON(o) == IF o.some THEN MarshalString(o.v) ELSE JSONNull

\* a field of the JSON object: missing, or present with a JSON text
Missing    == [present |-> FALSE]
JSONTexts  == {JSONNull, <<"a">>} \cup {MarshalString(v) : v \in StringValues}
JSONFields == {Missing} \cup {[present |-> TRUE, data |-> d] : d \in JSONTexts}

\* encoding/json on a field whose type has UnmarshalJSON: a missing field is
\* left at its zero value, the empty Option; a present one, null included, is
\* handed to UnmarshalJSON.
DecodeField(field) ==
    IF field.present THEN UnmarshalJSON(None, field.data) ELSE [o |-> None, err |-> FALSE]

(***************************************************************************)
(* Update.StateID with its key as the string fmt.Sprintf writes.           *)
(***************************************************************************)
Digits == <<"0", "1", "2", "3", "4", "5", "6", "7", "8", "9">>

\* the verb %d on an int64
RECURSIVE FormatNat(_)
FormatNat(n) ==
    IF n < 10 THEN <<Digits[n + 1]>> ELSE Append(FormatNat(n \div 10), Digits[(n % 10) + 1])
FormatInt(n) == IF n < 0 THEN <<"-">> \o FormatNat(0 - n) ELSE FormatNat(n)

SprintfKeyPlain(chat, user) == FormatInt(chat) \o FormatInt(user)

\* fmt.Sprintf("%d:%d", chat, user)
SprintfKey(chat, user) == FormatInt(chat) \o <<":">> \o FormatInt(user)

StateIDString(u) ==
    IF u.Message.some /\ u.Message.v.From.some
    THEN [ok |-> TRUE, id |-> SprintfKey(u.Message.v.Chat, u.Message.v.From.v)]
    ELSE IF u.CallbackQuery.some /\ u.CallbackQuery.v.Message.some
    THEN [ok |-> TRUE,
          id |-> SprintfKey(u.CallbackQuery.v.Message.v.Chat, u.CallbackQuery.v.From)]
    ELSE [ok |-> FALSE, id |-> <<>>]

\* Chats (a group has a negative id) and users whose ids share digits; an
\* update carries a message, a callback query, or neither.
KeyChats == {0 - 1, 1, 11}
KeyUsers == {1, 11}
KeyMessages ==
    [Chat : KeyChats, From : {None} \cup {Some(f) : f \in KeyUsers}]
KeyCallbacks ==
    [From    : KeyUsers,
     Message : {None} \cup {Some([Chat |-> c, From |-> None]) : c \in KeyChats}]
KeyUpdates ==
    {[Message |-> None, CallbackQuery |-> None]}
    \cup {[Message |-> Some(m), CallbackQuery |-> None] : m \in KeyMessages}
    \cup {[Message |-> None, CallbackQuery |-> Some(q)] : q \in KeyCallbacks}

\* the calls that are made: one function, with its arguments
CallInputs ==
    {[fn |-> "Handle", bot |-> bot, upd |-> upd] :
        bot \in BotNames, upd \in DispatchUpdates}
    \cup {[fn |-> "Parse", source |-> source] : source \in ParseInputs}
    \cup {[fn |-> "splitArgs", source |-> source] : source \in Strs}
    \cup {[fn |-> "NextAfter", args |-> args, key |-> key] :
            args \in ArgLists, key \in Tokens}
    \cup {[fn |-> "DecodeField", field |-> field] : field \in JSONFields}
    \cup {[fn |-> "MarshalJSON", o |-> o] :
            o \in {None} \cup {Some(v) : v \in StringValues}}
    \cup {[fn |-> "StateID", a |-> a, b |-> b] : a \in KeyUpdates, b \in KeyUpdates}

InitCalls == InitState /\ fin \in CallInputs

Called(fn) == fin.fn = fn /\ fout.fn = "none"

CallHandle ==
    /\ Called("Handle")
    /\ fout' = [fn |-> "Handle", called |-> Handle(fin.bot, fin.upd)]
    /\ UNCHANGED <<fin, sent, outbox, svars, pvars>>

CallParse ==
    /\ Called("Parse")
    /\ fout' = [fn |-> "Parse", cmd |-> Parse(fin.source).cmd,
                ok |-> Parse(fin.source).ok]
    /\ UNCHANGED <<fin, sent, outbox, svars, pvars>>

CallSplitArgs ==
    /\ Called("splitArgs")
    /\ fout' = [fn |-> "splitArgs", args |-> splitArgs(fin.source)]
    /\ UNCHANGED <<fin, sent, outbox, svars, pvars>>

CallNextAfter ==
    /\ Called("NextAfter")
    /\ fout' = [fn |-> "NextAfter",
                res |-> NextAfter([Method |-> <<"a">>, Args |-> fin.args], fin.key)]
    /\ UNCHANGED <<fin, sent, outbox, svars, pvars>>

CallDecodeField ==
    /\ Called("DecodeField")
    /\ fout' = [fn |-> "DecodeField", o |-> DecodeField(fin.field).o,
                err |-> DecodeField(fin.field).err]
    /\ UNCHANGED <<fin, sent, outbox, svars, pvars>>

CallMarshalJSON ==
    /\ Called("MarshalJSON")
    /\ fout' = [fn |-> "MarshalJSON", data |-> MarshalJSON(fin.o)]
    /\ UNCHANGED <<fin, sent, outbox, svars, pvars>>

\* a.StateID() and b.StateID()
CallStateID ==
    /\ Called("StateID")
    /\ fout' = [fn |-> "StateID", a |-> StateIDString(fin.a), b |-> StateIDString(fin.b)]
    /\ UNCHANGED <<fin, sent, outbox, svars, pvars>>

CallsNext ==
    \/ CallStateID
    \/ CallHandle
    \/ CallParse
    \/ CallSplitArgs
    \/ CallNextAfter
    \/ CallDecodeField
    \/ CallMarshalJSON

SpecCalls == InitCalls /\ [][CallsNext]_vars

\* the chat and the sender the claim derives the key of an update from
KeyPair(u) ==
    IF u.Message.some /\ u.Message.v.From.some
    THEN <<u.Message.v.Chat, u.Message.v.From.v>>
    ELSE <<u.CallbackQuery.v.Message.v.Chat, u.CallbackQuery.v.From>>
HasKey(u) ==
    \/ u.Message.some /\ u.Message.v.From.some
    \/ u.CallbackQuery.some /\ u.CallbackQuery.v.Message.some

\* C33: the key of an update is "<chat id>:<sender id>" for a message with a
\* sender and for a callback query with a message (the message's chat, the
\* query's sender), and there is none for any other update; two updates with
\* keys have the same key exactly when they have the same chat id and the same
\* sender id; and the pair the pipeline uses as the key stands for that string.
C33_StateKey ==
    fout.fn = "StateID" =>
        /\ \A u \in {fin.a, fin.b} :
            LET k == StateIDString(u) IN
            /\ k.ok <=> HasKey(u)
            /\ k.ok = StateID(u).ok
            /\ k.ok => /\ k.id = FormatInt(KeyPair(u)[1]) \o <<":">> \o FormatInt(KeyPair(u)[2])
                       /\ StateID(u).id = KeyPair(u)
        /\ fout.a = StateIDString(fin.a) /\ fout.b = StateIDString(fin.b)
        /\ (fout.a.ok /\ fout.b.ok)
                => (fout.a.id = fout.b.id <=> KeyPair(fin.a) = KeyPair(fin.b))

\* C33 witness: a message of user 11 in chat 1 and a callback query of user 1
\* on a message of chat 11: the digits agree, the keys do not.
C33_Witness ==
    /\ fout.fn = "StateID"
    /\ fin.a = [Message |-> Some([Chat |-> 1, From |-> Some(11)]), CallbackQuery |-> None]
    /\ fin.b = [Message |-> None,
                CallbackQuery |-> Some([From |-> 1,
                                        Message |-> Some([Chat |-> 11, From |-> None])])]
    /\ fout.a = [ok |-> TRUE, id |-> <<"1", ":", "1", "1">>]
    /\ fout.b = [ok |-> TRUE, id |-> <<"1", "1", ":", "1">>]

\* what is left of a text when a leading mention of the bot and the white
\* space around it are taken away
Stripped(name, text) == TrimSpace(TrimPrefix(TrimSpace(text), <<"@">> \o name))

\* a private or group message with a text and a sender
TextMessage(upd) ==
    /\ upd.Message.some
    /\ upd.Message.v.ChatType \in {"private", "group"}
    /\ upd.Message.v.Text.some
    /\ upd.Message.v.From.some

\* C34: a private or group text message reaches the handler with its text
\* less a leading "@<botname>" and the white space around that mention; the
\* text "@<botname>" reaches it as the empty text.
C34_MentionStripped ==
    (/\ fout.fn = "Handle"
     /\ TextMessage(fin.upd)
     /\ fin.bot.some /\ fin.bot.v # <<>>)
        => /\ fout.called.ok
           /\ fout.called.text = Stripped(fin.bot.v, fin.upd.Message.v.Text.v)

\* C35: a private or group message without a text, or with the text "", goes
\* to Ignore; no text handler is called for it.
C35_EmptyTextIgnored ==
    (/\ fout.fn = "Handle"
     /\ fin.upd.Message.some
     /\ fin.upd.Message.v.ChatType \in {"private", "group"}
     /\ (~fin.upd.Message.v.Text.some \/ fin.upd.Message.v.Text.v = <<>>))
        => fout.called.method = "Ignore"

\* The routing table of the dispatcher, as the claim gives it.
Routed(upd) ==
    LET m == upd.Message IN
    IF m.some /\ m.v.Text.some /\ m.v.From.some /\ m.v.ChatType = "private"
    THEN "PrivateTextMessage"
    ELSE IF m.some /\ m.v.Text.some /\ m.v.From.some /\ m.v.ChatType = "group"
    THEN "GroupTextMessage"
    ELSE IF upd.CallbackQuery.some
    THEN "CallbackQuery"
    ELSE "Ignore"

\* C16 (as claimed): Handle calls the one method the routing table names:
\* PrivateTextMessage, GroupTextMessage, else CallbackQuery for an update with
\* a callback query, else Ignore.
C16_Routing ==
    fout.fn = "Handle" => fout.called.method = Routed(fin.upd)

\* the run of non-whitespace characters a string starts with
NonSpaceRun(s) ==
    LET ws == {i \in 1..Len(s) : IsSpace(s[i])} IN
    IF ws = {} THEN s
    ELSE SubSeq(s, 1, (CHOOSE i \in ws : \A k \in ws : i <= k) - 1)

\* C17 (as claimed): Parse reports a command iff the input begins with '/'
\* immediately followed by a non-space character, and Method is then the
\* maximal run of non-whitespace characters after the '/': never empty, never
\* with a whitespace character in it.
C17_ParseMethod ==
    fout.fn = "Parse" =>
        LET src == fin.source IN
        /\ fout.ok <=> (Len(src) >= 2 /\ src[1] = "/" /\ src[2] # " ")
        /\ fout.ok =>
             /\ fout.cmd.Method = NonSpaceRun(Tail(src))
             /\ fout.cmd.Method # <<>>
             /\ \A i \in 1..Len(fout.cmd.Method) : ~IsSpace(fout.cmd.Method[i])

(***************************************************************************)
(* The tokenisation rules, stated position by position.                    *)
(***************************************************************************)
\* how many backslashes stand directly before position i
BackslashRun(s, i) ==
    CHOOSE n \in 0..(i - 1) :
        /\ \A k \in (i - n)..(i - 1) : s[k] = "\\"
        /\ n = i - 1 \/ s[i - n - 1] # "\\"

Escaped(s, i)   == BackslashRun(s, i) % 2 = 1
Escapes(s, i)   == s[i] = "\\" /\ ~Escaped(s, i)
Toggles(s, i)   == s[i] = "\"" /\ ~Escaped(s, i)
Quoted(s, i)    == Cardinality({k \in 1..(i - 1) : Toggles(s, k)}) % 2 = 1
Separates(s, i) == IsSpace(s[i]) /\ ~Escaped(s, i) /\ ~Quoted(s, i)
Emitted(s, i)   == ~Escapes(s, i) /\ ~Toggles(s, i) /\ ~Separates(s, i)

\* the elements of a set of positions, in ascending order
Ascending(P) ==
    [k \in 1..Cardinality(P) |-> CHOOSE a \in P : Cardinality({b \in P : b <= a}) = k]

\* the emitted characters from position a up to the next separator
Piece(s, a) ==
    LET after == {i \in a..Len(s) : Separates(s, i)}
        stop  == IF after = {} THEN Len(s) + 1
                 ELSE CHOOSE i \in after : \A k \in after : i <= k
        pos   == Ascending({i \in a..(stop - 1) : Emitted(s, i)})
    IN  [k \in 1..Len(pos) |-> s[pos[k]]]

TokenisedArgs(s) ==
    LET starts == {a \in 1..Len(s) : (a = 1 \/ Separates(s, a - 1)) /\ Len(Piece(s, a)) > 0}
        ord    == Ascending(starts)
    IN  [k \in 1..Len(ord) |-> Piece(s, ord[k])]

\* C18: the Args of Parse are the text after the method split at whitespace
\* that is neither quoted nor escaped; unescaped quotes and escaping
\* backslashes (a trailing one included) are not emitted, an escaped character
\* is emitted as it is, and no argument is empty.  The same holds of
\* splitArgs on any string.
C18_Tokenisation ==
    /\ (fout.fn = "Parse" /\ fout.ok) =>
         LET after == SubSeq(fin.source, Len(fout.cmd.Method) + 2, Len(fin.source)) IN
         /\ fout.cmd.Args = TokenisedArgs(after)
         /\ \A k \in 1..Len(fout.cmd.Args) : fout.cmd.Args[k] # <<>>
    /\ fout.fn = "splitArgs" =>
         /\ fout.args = TokenisedArgs(fin.source)
         /\ \A k \in 1..Len(fout.args) : fout.args[k] # <<>>
         /\ (Len(fin.source) > 0 /\ Escapes(fin.source, Len(fin.source))) =>
                fout.args = splitArgs(SubSeq(fin.source, 1, Len(fin.source) - 1))

\* a command whose tail is: a, separator, opening quote, escaped blank
C18_Witness ==
    /\ fout.fn = "Parse"
    /\ fin.source = <<"/", "a", " ", "a", " ", "\"", "\\", " ">>
    /\ fout.ok
    /\ fout.cmd.Args = << <<"a">>, <<" ">> >>

\* C19: NextAfter(key) is (Args[i+1], true) for the smallest i with
\* Args[i] = key that has a successor, and ("", false) when there is none.
C19_NextAfter ==
    fout.fn = "NextAfter" =>
        LET I == {i \in 1..(Len(fin.args) - 1) : fin.args[i] = fin.key} IN
        IF I = {}
        THEN fout.res = [v |-> <<>>, ok |-> FALSE]
        ELSE fout.res = [v  |-> fin.args[(CHOOSE i \in I : \A k \in I : i <= k) + 1],
                         ok |-> TRUE]

\* the key stands at 1, at 3 and as the last argument; the successors differ
C19_Witness ==
    /\ fout.fn = "NextAfter"
    /\ fin.key = <<"a">>
    /\ fin.args = << <<"a">>, <<"b">>, <<"a">>, <<"a">> >>
    /\ fout.res = [v |-> <<"b">>, ok |-> TRUE]

\* C20 (as claimed): decoding a field that is present and not null gives
\* Some(parsed); decoding a missing or null field gives None; encoding
\* Some(v) gives the encoding of v and encoding None gives null.
C20_OptionCodec ==
    /\ (fout.fn = "DecodeField" /\ ~fout.err) =>
         IF fin.field.present /\ fin.field.data # JSONNull
         THEN fout.o.some /\ MarshalString(fout.o.v) = fin.field.data
         ELSE fout.o = None
    /\ fout.fn = "MarshalJSON" =>
         fout.data = IF fin.o.some THEN MarshalString(fin.o.v) ELSE JSONNull

====
